---- MODULE Spec2Model ----
(***************************************************************************)
(* Rules engine of Rockfall / Dungeon Rush: GameState, TileBag, Board,     *)
(* Tile, Unit and SeededRandom, as a state machine whose actions are the   *)
(* public operations of GameState.                                         *)
(***************************************************************************)
EXTENDS Integers, Sequences, FiniteSets, TLC

(***************************************************************************)
(* Bounds of the exploration.                                              *)
(***************************************************************************)
\* Number of state-changing engine calls explored after construction/reset.
MaxOps == 7

(***************************************************************************)
(* Configuration (gameConfig.js).                                          *)
(***************************************************************************)
BLANK == "blank"
SPIKE_TRAP == "spike_trap"
CAGE_TRAP == "cage_trap"
OIL_SLICK_TRAP == "oil_slick_trap"
PUSHBACK_TRAP == "pushback_trap"
BOMB_TRAP == "bomb_trap"
WALL == "wall"
TREASURE == "treasure"

TileType ==
  {BLANK, SPIKE_TRAP, CAGE_TRAP, OIL_SLICK_TRAP, PUSHBACK_TRAP, BOMB_TRAP, WALL, TREASURE}

BASIC == "basic"
SPRINTER == "sprinter"
JUMPER == "jumper"
SCOUT == "scout"
BOMBER == "bomber"

UnitType == {BASIC, SPRINTER, JUMPER, SCOUT, BOMBER}

\* Object.values(this.units) iterates in the insertion order of createAllUnits.
UnitOrder == <<BASIC, SPRINTER, JUMPER, SCOUT, BOMBER>>

DEFENSE == "defense"
OFFENSE == "offense"

totalPaths == 4
startingGold == 4
goldPerTurn == 4

unitCosts ==
  [k \in UnitType |->
     CASE k = BASIC    -> [summon |-> 2, move |-> 1]
       [] k = SPRINTER -> [summon |-> 3, move |-> 1]
       [] k = JUMPER   -> [summon |-> 3, move |-> 1]
       [] k = SCOUT    -> [summon |-> 4, move |-> 2]
       [] k = BOMBER   -> [summon |-> 4, move |-> 1]]

\* config.tileBag, in the order Object.entries lists it. The game is
\* constructed with a small supply, two full draws and one tile more, so that
\* the third draw finds the supply short.
tileBag ==
  << <<BLANK, 2>>, <<SPIKE_TRAP, 1>>, <<CAGE_TRAP, 1>>, <<OIL_SLICK_TRAP, 1>>,
     <<PUSHBACK_TRAP, 1>>, <<BOMB_TRAP, 1>>, <<WALL, 1>>, <<TREASURE, 1>> >>

(***************************************************************************)
(* SeededRandom (seededRandom.js).                                         *)
(***************************************************************************)
Modulus == 2147483647

\* seed % 2147483647 of JavaScript: the sign follows the dividend.
JsRem(a, m) == IF a >= 0 THEN a % m ELSE 0 - ((0 - a) % m)

\* constructor(seed) and reset(seed)
SeedState(seed) ==
  LET s == JsRem(seed, Modulus)
  IN  IF s <= 0 THEN s + 2147483646 ELSE s

\* (seed * 16807) % 2147483647, the product taken in parts so that no
\* intermediate leaves the integer range (the double of the code is exact here).
RngAdvance(s) ==
  LET t == 16807 * (s % 127773) - 2836 * (s \div 127773)
  IN  IF t < 0 THEN t + Modulus ELSE t

RECURSIVE MulDivFloor(_, _, _, _, _)
\* floor(a * n / d) for 0 <= a < d: n additions of a, carrying quotient and rest.
MulDivFloor(a, n, d, q, r) ==
  IF n = 0 THEN q
  ELSE IF r >= d - a THEN MulDivFloor(a, n - 1, d, q + 1, r - (d - a))
       ELSE MulDivFloor(a, n - 1, d, q, r + a)

\* nextInt(0, max) on the state reached by next(): floor(((s-1)/2147483646)*(max+1))
NextIntFrom(s, max) ==
  IF s >= 1 THEN MulDivFloor(s - 1, max + 1, 2147483646, 0, 0) ELSE 0 - 1

Swap(arr, i, j) == [arr EXCEPT ![i] = arr[j], ![j] = arr[i]]

\* what reading an index outside an array gives
UNDEFINED == "undefined"

RECURSIVE ShuffleFrom(_, _, _, _)
\* shuffle(array): Fisher-Yates from the last index down to 1 (0-based i, j).
\* An index j = -1 is no element of the array: [arr[i], arr[j]] = [arr[j], arr[i]]
\* then reads and writes the array's property "-1", held in minus1, and the
\* array keeps its length. Returns [arr, seed].
ShuffleFrom(arr, minus1, s, i) ==
  IF i <= 0 THEN [arr |-> arr, seed |-> s]
  ELSE IF NextIntFrom(RngAdvance(s), i) < 0
    THEN ShuffleFrom([arr EXCEPT ![i + 1] = minus1], arr[i + 1], RngAdvance(s), i - 1)
    ELSE ShuffleFrom(Swap(arr, i + 1, NextIntFrom(RngAdvance(s), i) + 1), minus1,
                     RngAdvance(s), i - 1)

shuffle(arr, s) == ShuffleFrom(arr, UNDEFINED, s, Len(arr) - 1)

(***************************************************************************)
(* TileBag (gameState.js).                                                 *)
(***************************************************************************)
RECURSIVE Repeat(_, _)
Repeat(v, n) == IF n <= 0 THEN <<>> ELSE <<v>> \o Repeat(v, n - 1)

RECURSIVE TileArray(_, _)
TileArray(counts, i) ==
  IF i > Len(counts) THEN <<>>
  ELSE Repeat(counts[i][1], counts[i][2]) \o TileArray(counts, i + 1)

\* _createTileArray(tileCounts): materialise the counts, then shuffle.
createTileArray(counts, s) == shuffle(TileArray(counts, 1), s)

\* canDraw(count) that only asks for a tile to be left
canDrawAny(remaining, count) == Len(remaining) > 0

\* canDraw(count)
canDraw(remaining, count) == Len(remaining) >= count

RECURSIVE drawTiles(_, _, _, _)
\* drawTiles(count): pop from the end of remainingTiles, push on drawnTiles.
\* Returns [tiles, remaining, drawn].
drawTiles(remaining, drawn, count, tiles) ==
  IF count = 0 \/ Len(remaining) = 0
    THEN [tiles |-> tiles, remaining |-> remaining, drawn |-> drawn]
    ELSE LET t == remaining[Len(remaining)]
         IN  drawTiles(SubSeq(remaining, 1, Len(remaining) - 1),
                       Append(drawn, t), count - 1, Append(tiles, t))

(***************************************************************************)
(* Tile (tiles.js).                                                        *)
(***************************************************************************)
\* createTile(type, x, y); the coordinates are the tile's place in columns.
createTile(type) ==
  [type |-> type, revealed |-> FALSE, hasUnit |-> FALSE, treasureCollected |-> FALSE]

\* Tile.reveal()
reveal(tile) == [tile EXCEPT !.revealed = TRUE]

\* Tile.hide(): tiles with units and collected treasure stay face-up.
hide(tile) ==
  IF ~tile.hasUnit /\ ~(tile.type = TREASURE /\ tile.treasureCollected)
    THEN [tile EXCEPT !.revealed = FALSE]
    ELSE tile

NoPush == <<>>

NoEffects ==
  [killed |-> FALSE, trapped |-> FALSE, blocked |-> FALSE, pushed |-> NoPush,
   treasure |-> FALSE, bomb |-> FALSE]

\* Tile.applyEffect(unit, direction)
applyEffect(type, dx, dy) ==
  CASE type = BLANK          -> NoEffects
    [] type = SPIKE_TRAP     -> [NoEffects EXCEPT !.killed = TRUE]
    [] type = CAGE_TRAP      -> [NoEffects EXCEPT !.trapped = TRUE]
    [] type = OIL_SLICK_TRAP -> [NoEffects EXCEPT !.pushed = <<dx, dy>>]
    [] type = PUSHBACK_TRAP  -> [NoEffects EXCEPT !.pushed = <<0 - dx, 0 - dy>>]
    [] type = BOMB_TRAP      -> [NoEffects EXCEPT !.bomb = TRUE, !.killed = TRUE]
    [] type = WALL           -> [NoEffects EXCEPT !.blocked = TRUE]
    [] type = TREASURE       -> [NoEffects EXCEPT !.treasure = TRUE]
    [] OTHER                 -> NoEffects

(***************************************************************************)
(* Unit (units.js).                                                        *)
(***************************************************************************)
\* new Unit(type, id)
createUnit ==
  [x |-> 0 - 1, y |-> 0 - 1, alive |-> FALSE, spawned |-> FALSE, trapped |-> FALSE,
   canRespawn |-> TRUE]

createAllUnits == [k \in UnitType |-> createUnit]

\* Unit.spawn(y) without line 28: the unit stays eligible to respawn
spawnStaysEligible(u, y) ==
  [x |-> 0 - 1, y |-> y, alive |-> TRUE, spawned |-> TRUE, trapped |-> FALSE,
   canRespawn |-> TRUE]

\* Unit.spawn(y)
spawn(u, y) ==
  [x |-> 0 - 1, y |-> y, alive |-> TRUE, spawned |-> TRUE, trapped |-> FALSE,
   canRespawn |-> FALSE]

\* Unit.moveTo(x, y)
moveTo(u, x, y) == [u EXCEPT !.x = x, !.y = y]

\* kill() that leaves the unit where it died
killInPlace(u) == [u EXCEPT !.alive = FALSE, !.spawned = FALSE]

\* Unit.kill()
kill(u) == [u EXCEPT !.alive = FALSE, !.spawned = FALSE, !.x = 0 - 1, !.y = 0 - 1]

\* Unit.enableRespawn()
enableRespawn(u) == IF ~u.alive THEN [u EXCEPT !.canRespawn = TRUE] ELSE u

Abs(n) == IF n < 0 THEN 0 - n ELSE n

RECURSIVE SpawnOptions(_, _, _)
\* the loops over targetY of getMovementOptions for a unit at x = -1
SpawnOptions(k, uy, targetY) ==
  IF targetY >= totalPaths THEN <<>>
  ELSE LET dy == targetY - uy
       IN  (CASE k = SPRINTER -> << <<1, dy>>, <<2, dy>> >>
              [] k = JUMPER   -> << <<2, dy>> >>
              [] OTHER        -> << <<1, dy>> >>)
           \o SpawnOptions(k, uy, targetY + 1)

\* getMovementOptions without the test of line 113: the step to the left is
\* offered in column 0 as well
optionsLeftFromColumn0(k, u) ==
  IF u.x = 0 - 1 THEN SpawnOptions(k, u.y, 0)
  ELSE << <<1, 0>>, <<0, 1>>, <<0, 0 - 1>>, <<0 - 1, 0>> >>

\* getMovementOptions with the test of line 135 as x > 0: the sprinter is
\* offered two steps to the left from column 1
sprinterDoubleLeftFromColumn1(k, u) ==
  IF u.x = 0 - 1 THEN SpawnOptions(k, u.y, 0)
  ELSE << <<2, 0>>, <<0, 2>>, <<0, 0 - 2>>, <<1, 0>>, <<0, 1>>, <<0, 0 - 1>> >>
       \o (IF u.x > 0 THEN << <<0 - 1, 0>>, <<0 - 2, 0>> >> ELSE <<>>)

\* getMovementOptions with the test of line 154 as x > 0: the jumper is
\* offered the jump to the left from column 1
jumperLeftFromColumn1(k, u) ==
  IF u.x = 0 - 1 THEN SpawnOptions(k, u.y, 0)
  ELSE << <<2, 0>>, <<0, 2>>, <<0, 0 - 2>>, <<2, 2>>, <<2, 0 - 2>>,
          <<0 - 2, 2>>, <<0 - 2, 0 - 2>> >>
       \o (IF u.x > 0 THEN << <<0 - 2, 0>> >> ELSE <<>>)

\* Unit.getMovementOptions(totalPaths): the array of {dx, dy} offsets, in order.
getMovementOptions(k, u) ==
  IF u.x = 0 - 1 THEN SpawnOptions(k, u.y, 0)
  ELSE CASE k \in {BASIC, SCOUT, BOMBER} ->
              << <<1, 0>>, <<0, 1>>, <<0, 0 - 1>> >>
              \o (IF u.x > 0 THEN << <<0 - 1, 0>> >> ELSE <<>>)
         [] k = SPRINTER ->
              << <<2, 0>>, <<0, 2>>, <<0, 0 - 2>>, <<1, 0>>, <<0, 1>>, <<0, 0 - 1>> >>
              \o (IF u.x > 0 THEN << <<0 - 1, 0>> >> ELSE <<>>)
              \o (IF u.x > 1 THEN << <<0 - 2, 0>> >> ELSE <<>>)
         [] k = JUMPER ->
              << <<2, 0>>, <<0, 2>>, <<0, 0 - 2>>, <<2, 2>>, <<2, 0 - 2>>,
                 <<0 - 2, 2>>, <<0 - 2, 0 - 2>> >>
              \o (IF u.x > 1 THEN << <<0 - 2, 0>> >> ELSE <<>>)
         [] OTHER -> <<>>

getMoveCost(k) == unitCosts[k].move

getSpawnCost(k) == unitCosts[k].summon

hasJumpAbility(k) == k = JUMPER

hasRevealAbility(k) == k = SCOUT

hasBombAbility(k) == k = BOMBER

\* Unit.isJumpMove(dx, dy)
isJumpMove(k, dx, dy) ==
  /\ hasJumpAbility(k)
  /\ \/ (Abs(dx) = 2 /\ dy = 0)
     \/ (dx = 0 /\ Abs(dy) = 2)
     \/ (Abs(dx) = 2 /\ Abs(dy) = 2)

(***************************************************************************)
(* Board (gameState.js). cols is board.columns: cols[x + 1][y + 1] is the  *)
(* tile at column x, row y; maxCol is board.maxColumn.                     *)
(***************************************************************************)
\* Board.isValidPosition(x, y)
isValidPosition(maxCol, x, y) == x >= 0 /\ x <= maxCol /\ y >= 0 /\ y < totalPaths

\* Board.isDefenseEndzone(x)
isDefenseEndzone(maxCol, x) == x > maxCol

\* Board.getTile(x, y), for a position inside the board
getTile(cols, x, y) == cols[x + 1][y + 1]

\* Board.setTileHasUnit(x, y, hasUnit): nothing happens outside the board.
setTileHasUnit(cols, maxCol, x, y, b) ==
  IF x < 0 \/ x > maxCol \/ y < 0 \/ y >= totalPaths THEN cols
  ELSE [cols EXCEPT ![x + 1][y + 1].hasUnit = b]

\* Board.revealTile(x, y) / tile.reveal() on getTile(x, y)
revealAt(cols, maxCol, x, y) ==
  IF isValidPosition(maxCol, x, y)
    THEN [cols EXCEPT ![x + 1][y + 1] = reveal(@)]
    ELSE cols

\* Board.hideRevealedTiles()
hideRevealedTiles(cols) ==
  [c \in 1..Len(cols) |-> [r \in 1..Len(cols[c]) |-> hide(cols[c][r])]]

\* revealAllTiles() that reveals nothing
revealNoTiles(cols) == cols

\* GameState.revealAllTiles()
revealAllTiles(cols) ==
  [c \in 1..Len(cols) |-> [r \in 1..Len(cols[c]) |-> reveal(cols[c][r])]]

\* the new column of Board.addColumn(tileTypes)
newColumn(tiles) == [r \in 1..totalPaths |-> createTile(tiles[r])]

(***************************************************************************)
(* State of GameState, its Board and its TileBag.                          *)
(***************************************************************************)
VARIABLES
  turn,              \* GameState.turn
  phase,             \* GameState.phase
  defenseTurnCount,  \* GameState.defenseTurnCount
  firstCycle,        \* GameState.firstCycle
  gold,              \* GameState.gold
  currentDraw,       \* GameState.currentDraw
  gameOver,          \* GameState.gameOver
  winner,            \* GameState.winner ("none" is null)
  units,             \* GameState.units: kind -> Unit
  columns,           \* Board.columns
  maxColumn,         \* Board.maxColumn
  remainingTiles,    \* TileBag.remainingTiles
  drawnTiles,        \* TileBag.drawnTiles
  rngSeed,           \* TileBag.rng.seed, the state of the generator
  tileBagSeed,       \* GameState.config.tileBagSeed
  result,            \* the last call: its arguments and what it returned
  defenseEnds,       \* endDefensePhase calls since construction/reset (3: three or more)
  ops,               \* state-changing calls since construction/reset
  idle,              \* the last call left the engine's state as it was
  scn,               \* the caller: which arguments it passes
  selectedTiles      \* DefensePlayer.selectedTiles: row -> tile type

engine ==
  <<turn, phase, defenseTurnCount, firstCycle, gold, currentDraw, gameOver, winner,
    units, columns, maxColumn, remainingTiles, drawnTiles, rngSeed, tileBagSeed>>

vars == <<engine, result, defenseEnds, ops, idle, scn, selectedTiles>>

\* the positions of the board's tiles (Board.getAllTiles)
BoardPositions == (0..maxColumn) \X (0..(totalPaths - 1))

\* the positions of the tiles of cols that are face-up and face-down in after
turnedFaceDown(cols, after) ==
  {p \in BoardPositions : getTile(cols, p[1], p[2]).revealed
                           /\ ~getTile(after, p[1], p[2]).revealed}

(***************************************************************************)
(* The last call. op names the operation; during is the phase it was made  *)
(* in; unit, tx, ty and given are the arguments it was called with; after, *)
(* kept for spawnUnit, is the operation and unit of the call made before   *)
(* it; kills counts the calls of kill() while it ran, for each             *)
(* unit, blasts lists the centres of the bomb resolutions it ran, in order, *)
(* landed is where a push took the unit and whether that tile was revealed *)
(* before, wasRevealed is moveUnit's local of that name, and hidden is the  *)
(* set of tiles endOffensePhase turned face-down; twin, kept when the       *)
(* supply is driven on its own, is a second supply built alike and given   *)
(* the same calls; value, kept when the generator is driven on its own, is *)
(* the number a generator call returned; the other                         *)
(* fields are what it returned. A call that returns an object sets         *)
(* returned; the void operations (endDefensePhase, endOffensePhase, reset) *)
(* do not.                                                                 *)
(***************************************************************************)
\* no unit has been killed in the running operation
NoKills == [k \in UnitType |-> 0]

Returned(op, success, error) ==
  [op |-> op, during |-> phase, after |-> <<>>,
   unit |-> "", tx |-> 0, ty |-> 0, given |-> <<>>,
   returned |-> TRUE, success |-> success, error |-> error,
   goldLost |-> FALSE, win |-> FALSE, effects |-> NoEffects, kills |-> NoKills,
   blasts |-> <<>>, landed |-> <<>>, wasRevealed |-> FALSE, tiles |-> <<>>,
   tileType |-> "", hidden |-> {}, twin |-> <<>>, value |-> <<>>]

Void(op) == [Returned(op, FALSE, "") EXCEPT !.returned = FALSE]

Fail(op, error) == Returned(op, FALSE, error)

CalledWith(r, k, tx, ty) == [r EXCEPT !.unit = k, !.tx = tx, !.ty = ty]

(***************************************************************************)
(* GameState.triggerBombEffect (gameState.js). w is the part of the state  *)
(* it works on: [units, cols, kills, blasts, landed], kills counting the    *)
(* calls of kill() per unit, blasts listing the centres of the bomb        *)
(* resolutions and landed holding the tile a push took the unit to, within *)
(* the running operation.                                                  *)
(***************************************************************************)
\* the four entries of adjacentPositions, in order
adjacentPositions(x, y) == << <<x + 1, y>>, <<x - 1, y>>, <<x, y + 1>>, <<x, y - 1>> >>

\* the test of lines 422-425 with the bomb tile only
onBombTileOnly(u, x, y) == u.x = x /\ u.y = y

onBlast(u, x, y) ==
  \/ (u.x = x /\ u.y = y)
  \/ \E i \in 1..4 : u.x = adjacentPositions(x, y)[i][1] /\ u.y = adjacentPositions(x, y)[i][2]

\* u.kill() followed by the occupancy update at the unit's coordinates, which
\* kill() has just set to (-1, -1)
bombKill(w, k, maxCol) ==
  LET dead == kill(w.units[k])
  IN  [w EXCEPT !.units[k] = dead,
                !.kills[k] = @ + 1,
                !.cols = IF isValidPosition(maxCol, dead.x, dead.y)
                           THEN setTileHasUnit(w.cols, maxCol, dead.x, dead.y, FALSE)
                           ELSE w.cols]

RECURSIVE revealAdjacent(_, _, _, _, _)
\* adjacentPositions.forEach(pos => ... tile.reveal())
revealAdjacent(cols, maxCol, x, y, i) ==
  IF i > 4 THEN cols
  ELSE revealAdjacent(
         revealAt(cols, maxCol, adjacentPositions(x, y)[i][1], adjacentPositions(x, y)[i][2]),
         maxCol, x, y, i + 1)

\* lines 443-448 on w
revealBlast(w, maxCol, x, y) == [w EXCEPT !.cols = revealAdjacent(w.cols, maxCol, x, y, 1)]

RECURSIVE triggerBombEffect(_, _, _, _)
RECURSIVE bombLoop(_, _, _, _, _)
\* lines 421-439: the callback of forEach applied to the unit k
bombUnit(w, maxCol, x, y, k) ==
  IF w.units[k].alive /\ onBlast(w.units[k], x, y)
    THEN bombKill(IF hasBombAbility(k) /\ (w.units[k].x # x \/ w.units[k].y # y)
                    THEN triggerBombEffect(w, maxCol, w.units[k].x, w.units[k].y)
                    ELSE w,
                  k, maxCol)
    ELSE w

\* Object.values(this.units).forEach(u => ...), from the i-th unit on
bombLoop(w, maxCol, x, y, i) ==
  IF i > Len(UnitOrder) THEN w
  ELSE bombLoop(bombUnit(w, maxCol, x, y, UnitOrder[i]), maxCol, x, y, i + 1)

triggerBombEffect(w, maxCol, x, y) ==
  revealBlast(bombLoop([w EXCEPT !.blasts = Append(@, <<x, y>>)], maxCol, x, y, 1),
              maxCol, x, y)

(***************************************************************************)
(* GameState.moveUnit (gameState.js). The operators below compute what the *)
(* call leaves behind: [gold, units, cols, gameOver, winner, kills, result].*)
(***************************************************************************)
\* a rejection that comes after the gold was taken
MoveRejectedCharged(error) ==
  [gold |-> gold - 1, units |-> units, cols |-> columns, gameOver |-> gameOver,
   winner |-> winner, kills |-> NoKills, result |-> Fail("moveUnit", error)]

\* an early return of lines 176-213: nothing is touched
MoveRejected(error) ==
  [gold |-> gold, units |-> units, cols |-> columns, gameOver |-> gameOver,
   winner |-> winner, kills |-> NoKills, result |-> Fail("moveUnit", error)]

\* Object.values(this.units).find(...): the first match in iteration order
RECURSIVE findUnit(_, _)
findUnit(S, i) ==
  IF i > Len(UnitOrder) THEN "none"
  ELSE IF UnitOrder[i] \in S THEN UnitOrder[i] ELSE findUnit(S, i + 1)

\* lines 311-353: the unit k standing on (tx, ty) is pushed by pushed = <<dx, dy>>
pushUnit(w, k, tx, ty, pushed) ==
  LET newX == tx + pushed[1]
      newY == ty + pushed[2]
  IN  IF isValidPosition(maxColumn, newX, newY)
        THEN LET pushTile == getTile(w.cols, newX, newY)
             IN  IF pushTile.type = WALL THEN w
                 ELSE LET ca == setTileHasUnit(w.cols, maxColumn, tx, ty, FALSE)
                          ua == [w.units EXCEPT ![k] = moveTo(@, newX, newY)]
                          cb == setTileHasUnit(ca, maxColumn, newX, newY, TRUE)
                          cc == revealAt(cb, maxColumn, newX, newY)
                          pushEffects == applyEffect(pushTile.type, pushed[1], pushed[2])
                      IN  IF pushEffects.killed
                            THEN [w EXCEPT
                                    !.units = [ua EXCEPT ![k] = kill(@)],
                                    !.cols = setTileHasUnit(cc, maxColumn, newX, newY, FALSE),
                                    !.kills[k] = @ + 1,
                                    !.landed = <<newX, newY, pushTile.revealed>>]
                            ELSE [w EXCEPT !.units = ua, !.cols = cc,
                                           !.landed = <<newX, newY, pushTile.revealed>>]
        ELSE w

\* lines 277-278: unit.kill() and the tile (tx, ty) no longer occupied
killOnTile(w, k, tx, ty) ==
  [w EXCEPT !.units[k] = kill(@),
            !.cols = setTileHasUnit(w.cols, maxColumn, tx, ty, FALSE),
            !.kills[k] = @ + 1]

\* lines 269-279: effects.killed; a bomber detonates where it stands first
killStep(w, k, tx, ty, effects) ==
  IF effects.killed
    THEN killOnTile(IF hasBombAbility(k)
                      THEN triggerBombEffect(w, maxColumn, w.units[k].x, w.units[k].y)
                      ELSE w,
                    k, tx, ty)
    ELSE w

\* lines 287-297: the unit is caged; a unit found caged on the tile is freed
cage(w, k, otherTrappedUnit) ==
  IF otherTrappedUnit # "none"
    THEN [w EXCEPT !.units[k].trapped = TRUE, !.units[otherTrappedUnit].trapped = FALSE]
    ELSE [w EXCEPT !.units[k].trapped = TRUE]

\* lines 281-298: effects.trapped
trapStep(w, k, tx, ty, effects) ==
  IF effects.trapped
    THEN cage(w, k, findUnit({o \in UnitType : /\ o # k
                                               /\ w.units[o].alive
                                               /\ w.units[o].trapped
                                               /\ w.units[o].x = tx
                                               /\ w.units[o].y = ty}, 1))
    ELSE w

\* lines 300-304: effects.treasure, the tile's part (the gold is added in moved)
treasureStep(w, tx, ty, effects) ==
  IF effects.treasure
    THEN [w EXCEPT !.cols[tx + 1][ty + 1].treasureCollected = TRUE]
    ELSE w

\* lines 306-309: effects.bomb
bombStep(w, tx, ty, effects) ==
  IF effects.bomb THEN triggerBombEffect(w, maxColumn, tx, ty) ELSE w

\* lines 311-353: effects.pushed
pushStep(w, k, tx, ty, effects) ==
  IF effects.pushed # NoPush THEN pushUnit(w, k, tx, ty, effects.pushed) ELSE w

\* line 355 and the gold of line 301: what the successful move leaves behind
moved(g1, w, effects) ==
  [gold |-> IF effects.treasure THEN g1 + 4 ELSE g1,
   units |-> w.units, cols |-> w.cols, gameOver |-> gameOver, winner |-> winner,
   kills |-> w.kills,
   result |-> [Returned("moveUnit", TRUE, "")
                 EXCEPT !.effects = effects, !.kills = w.kills, !.blasts = w.blasts,
                        !.landed = w.landed]]

\* lines 268-355: the effects are handled in the order of the code
resolveEffects(k, tx, ty, g1, w0, effects) ==
  moved(g1,
        pushStep(
          bombStep(
            treasureStep(
              trapStep(
                killStep(w0, k, tx, ty, effects),
                k, tx, ty, effects),
              tx, ty, effects),
            tx, ty, effects),
          k, tx, ty, effects),
        effects)

\* lines 260-355: the unit has been moved onto the non-wall tile (tx, ty)
resolveTile(k, tx, ty, dx, dy, g1, u1, c2, wasRevealed) ==
  resolveEffects(k, tx, ty, g1,
                 [units |-> u1,
                  cols |-> setTileHasUnit(c2, maxColumn, tx, ty, TRUE),
                  kills |-> NoKills,
                  blasts |-> <<>>,
                  landed |-> <<>>],
                 IF wasRevealed THEN NoEffects
                 ELSE applyEffect(getTile(c2, tx, ty).type, dx, dy))

\* lines 250-258 without the revert of line 252
blockedByWallNoRevert(k, oldX, oldY, g1, u1, c2) ==
  [gold |-> g1,
   units |-> u1,
   cols |-> IF isValidPosition(maxColumn, oldX, oldY)
              THEN setTileHasUnit(c2, maxColumn, oldX, oldY, TRUE)
              ELSE c2,
   gameOver |-> gameOver, winner |-> winner, kills |-> NoKills,
   result |-> [Fail("moveUnit", "Movement blocked by wall") EXCEPT !.goldLost = TRUE]]

\* lines 250-258: the tile is a wall; the move is reverted, the gold stays paid
blockedByWall(k, oldX, oldY, g1, u1, c2) ==
  [gold |-> g1,
   units |-> [u1 EXCEPT ![k] = moveTo(@, oldX, oldY)],
   cols |-> IF isValidPosition(maxColumn, oldX, oldY)
              THEN setTileHasUnit(c2, maxColumn, oldX, oldY, TRUE)
              ELSE c2,
   gameOver |-> gameOver, winner |-> winner, kills |-> NoKills,
   result |-> [Fail("moveUnit", "Movement blocked by wall") EXCEPT !.goldLost = TRUE]]

\* line 241: wasRevealed, kept with the outcome m of the move
noting(m, wasRevealed) == [m EXCEPT !.result.wasRevealed = wasRevealed]

\* lines 226-258: pay, move, reveal, and revert on a wall
moveOntoBoard(k, tx, ty, dx, dy) ==
  LET cost == getMoveCost(k)
      oldX == units[k].x
      oldY == units[k].y
      c1 == IF isValidPosition(maxColumn, oldX, oldY)
              THEN setTileHasUnit(columns, maxColumn, oldX, oldY, FALSE)
              ELSE columns
      g1 == gold - cost
      u1 == [units EXCEPT ![k] = moveTo(@, tx, ty)]
      wasRevealed == getTile(c1, tx, ty).revealed
      shouldReveal == ~isJumpMove(k, dx, dy)
      c2 == IF shouldReveal THEN revealAt(c1, maxColumn, tx, ty) ELSE c1
  IN  noting(IF getTile(c2, tx, ty).type = WALL
                THEN blockedByWall(k, oldX, oldY, g1, u1, c2)
                ELSE resolveTile(k, tx, ty, dx, dy, g1, u1, c2, wasRevealed),
             wasRevealed)

\* isValidMove of lines 194-197
isValidMove(k, dx, dy) ==
  LET validMoves == getMovementOptions(k, units[k])
  IN  \E i \in 1..Len(validMoves) : validMoves[i] = <<dx, dy>>

\* the check of lines 206-213 left out
targetOccupiedUnchecked(k, tx, ty) == FALSE

\* targetOccupied of lines 209-211
targetOccupied(k, tx, ty) ==
  \E o \in UnitType : units[o].alive /\ o # k /\ units[o].x = tx /\ units[o].y = ty

\* lines 216-224 with the flag toggled instead of set
reachEndzoneToggles(k) ==
  [gold |-> gold - getMoveCost(k), units |-> units, cols |-> revealAllTiles(columns),
   gameOver |-> ~gameOver, winner |-> "offense", kills |-> NoKills,
   result |-> [Returned("moveUnit", TRUE, "") EXCEPT !.win = TRUE]]

\* lines 216-224: the unit reaches the defense endzone
reachEndzone(k) ==
  [gold |-> gold - getMoveCost(k), units |-> units, cols |-> revealAllTiles(columns),
   gameOver |-> TRUE, winner |-> "offense", kills |-> NoKills,
   result |-> [Returned("moveUnit", TRUE, "") EXCEPT !.win = TRUE]]

moveUnit(k, tx, ty) ==
  IF k \notin DOMAIN units THEN MoveRejected("Invalid unit type")
  ELSE IF ~units[k].alive THEN MoveRejected("Unit is not alive")
  ELSE IF units[k].trapped THEN MoveRejected("Unit is trapped")
  ELSE IF gold < getMoveCost(k) THEN MoveRejected("Not enough gold")
  ELSE IF ~isValidMove(k, tx - units[k].x, ty - units[k].y)
    THEN MoveRejected("Invalid move")
  ELSE IF ~isValidPosition(maxColumn, tx, ty) /\ ~isDefenseEndzone(maxColumn, tx)
    THEN MoveRejected("Invalid target position")
  ELSE IF targetOccupied(k, tx, ty)
    THEN MoveRejected("Target position occupied by another unit")
  ELSE IF isDefenseEndzone(maxColumn, tx) THEN reachEndzone(k)
  ELSE moveOntoBoard(k, tx, ty, tx - units[k].x, ty - units[k].y)

(***************************************************************************)
(* The callers explored. Each names the operations it issues (calls), the  *)
(* unit kinds it passes, the tile arrays it places, the supply seed and    *)
(* the starting gold of the configuration it constructs the game with, and *)
(* how many calls beyond MaxOps it is followed (deeper).                   *)
(***************************************************************************)
Callers ==
  { [calls |-> {"startDefensePhase", "placeDefenseTiles", "endDefensePhase", "spawnUnit",
                "moveUnit", "endOffensePhase", "reset"},
     kinds |-> {BASIC},
     placements |-> { <<WALL, BLANK, TREASURE, SPIKE_TRAP>> },
     seed |-> 1,
     startingGold |-> startingGold,
     deeper |-> 0],
    [calls |-> {"placeDefenseTiles", "endDefensePhase", "spawnUnit", "moveUnit",
                "revealAdjacentTile"},
     kinds |-> {JUMPER, SCOUT, "dragon"},
     placements |-> { <<WALL, BLANK, CAGE_TRAP, BLANK>>, <<BLANK, WALL>> },
     seed |-> 42,
     startingGold |-> startingGold,
     deeper |-> 0],
    [calls |-> {"placeDefenseTiles", "endDefensePhase", "spawnUnit", "moveUnit",
                "endOffensePhase"},
     kinds |-> {BASIC, SPRINTER, BOMBER},
     placements |-> { <<TREASURE, BLANK, WALL, CAGE_TRAP>> },
     seed |-> 7,
     startingGold |-> startingGold,
     deeper |-> 0],
    [calls |-> {"placeDefenseTiles", "spawnUnit", "moveUnit", "endDefensePhase"},
     kinds |-> {BASIC, BOMBER},
     placements |-> { <<SPIKE_TRAP, OIL_SLICK_TRAP, PUSHBACK_TRAP, BOMB_TRAP>> },
     seed |-> 2147483647,
     startingGold |-> startingGold,
     deeper |-> 0],
    [calls |-> {"placeDefenseTiles", "spawnUnit", "moveUnit"},
     kinds |-> {BASIC, SPRINTER},
     placements |-> { <<SPIKE_TRAP, OIL_SLICK_TRAP, TREASURE, BLANK>> },
     seed |-> 3,
     startingGold |-> startingGold,
     deeper |-> 0],
    [calls |-> {"placeDefenseTiles", "spawnUnit", "moveUnit"},
     kinds |-> {BASIC, SPRINTER},
     placements |-> { <<CAGE_TRAP, OIL_SLICK_TRAP, TREASURE, BLANK>> },
     seed |-> 11,
     startingGold |-> startingGold,
     deeper |-> 0],
    [calls |-> {"placeDefenseTiles", "spawnUnit", "moveUnit"},
     kinds |-> {BASIC, BOMBER},
     placements |-> { <<TREASURE, OIL_SLICK_TRAP, BOMB_TRAP, BLANK>> },
     seed |-> 5,
     startingGold |-> startingGold,
     deeper |-> 0],
    [calls |-> {"placeDefenseTiles", "spawnUnit", "moveUnit", "endOffensePhase"},
     kinds |-> {BASIC, SPRINTER},
     placements |-> { <<BOMB_TRAP, BLANK, TREASURE, BLANK>> },
     seed |-> 13,
     startingGold |-> startingGold,
     deeper |-> 0],
    [calls |-> {"placeDefenseTiles", "spawnUnit", "moveUnit", "endOffensePhase"},
     kinds |-> {JUMPER},
     placements |-> { <<BLANK, BLANK, TREASURE, BLANK>> },
     seed |-> 17,
     startingGold |-> startingGold,
     deeper |-> 0],
    [calls |-> {"placeDefenseTiles", "endDefensePhase", "spawnUnit", "moveUnit",
                "revealAdjacentTile"},
     kinds |-> {SCOUT},
     placements |-> { <<BLANK, BLANK, TREASURE, BLANK>> },
     seed |-> 19,
     startingGold |-> startingGold,
     deeper |-> 0],
    [calls |-> {"placeDefenseTiles", "spawnUnit", "moveUnit", "endOffensePhase"},
     kinds |-> {BASIC, SCOUT},
     placements |-> { <<BLANK, OIL_SLICK_TRAP, BLANK, BLANK>> },
     seed |-> 23,
     startingGold |-> 11,
     deeper |-> 1],
    [calls |-> {"startDefensePhase", "placeDefenseTiles", "endDefensePhase",
                "restartWithSeed"},
     kinds |-> {},
     placements |-> { <<BLANK, WALL, BLANK, BLANK>> },
     seed |-> 29,
     startingGold |-> startingGold,
     deeper |-> 0] }

\* the seeds the caller restarts the game with: the one the game was built
\* with and two others
ReplaySeeds == {29, 31, 1}

\* The targets passed to moveUnit for the unit k. A call rejected before the
\* target is read (unknown kind, dead or trapped unit, too little gold) gets
\* one target. From the spawn zone: every tile of the first three columns.
\* On the board: the tiles one and two steps away along a row or a column,
\* the four diagonal jumps and one diagonal step.
MoveOffsets ==
  { <<1, 0>>, <<0 - 1, 0>>, <<0, 1>>, <<0, 0 - 1>>,
    <<2, 0>>, <<0 - 2, 0>>, <<0, 2>>, <<0, 0 - 2>>,
    <<2, 2>>, <<2, 0 - 2>>, <<0 - 2, 2>>, <<0 - 2, 0 - 2>>, <<1, 1>> }

MoveTargets(k) ==
  IF k \notin DOMAIN units THEN {<<0, 0>>}
  ELSE IF ~units[k].alive \/ units[k].trapped \/ gold < unitCosts[k].move THEN {<<0, 0>>}
  ELSE IF units[k].x = 0 - 1 THEN (0..2) \X (0..(totalPaths - 1))
  ELSE {<<units[k].x + d[1], units[k].y + d[2]>> : d \in MoveOffsets}

\* the targets passed to revealAdjacentTile for the unit k: its four
\* neighbours and one diagonal
RevealTargets(k) ==
  IF k \in DOMAIN units
    THEN {<<units[k].x + d[1], units[k].y + d[2]>> :
            d \in {<<1, 0>>, <<0 - 1, 0>>, <<0, 1>>, <<0, 0 - 1>>, <<1, 1>>}}
    ELSE {<<0, 0>>}

(***************************************************************************)
(* Construction and the operations of GameState.                           *)
(***************************************************************************)
\* new TileBag(config.tileBag, seed).remainingTiles
initialSupply(seed) == createTileArray(tileBag, SeedState(seed)).arr

\* the generator's state once new TileBag(config.tileBag, seed) has shuffled
initialRng(seed) == createTileArray(tileBag, SeedState(seed)).seed

\* rng.reset(seed) left out of TileBag.reset(): the generator goes on from
\* the state it is in
generatorKept(seed, rng) == rng

\* rng.reset(seed) of TileBag.reset(): the state the generator is put in
reseeded(seed, rng) == SeedState(seed)

\* TileBag.reset() of a bag built with seed, its generator being in state rng:
\* [remaining, drawn, rng]
resetBag(seed, rng) ==
  [remaining |-> createTileArray(tileBag, reseeded(seed, rng)).arr,
   drawn |-> <<>>,
   rng |-> createTileArray(tileBag, reseeded(seed, rng)).seed]

\* constructor(config)
Constructed ==
  /\ turn = 1
  /\ phase = DEFENSE
  /\ defenseTurnCount = 0
  /\ firstCycle = TRUE
  /\ gold = scn.startingGold
  /\ currentDraw = <<>>
  /\ gameOver = FALSE
  /\ winner = "none"
  /\ units = createAllUnits
  /\ columns = <<>>
  /\ maxColumn = 0 - 1
  /\ remainingTiles = initialSupply(scn.seed)
  /\ drawnTiles = <<>>
  /\ rngSeed = initialRng(scn.seed)
  /\ tileBagSeed = scn.seed

\* new DefensePlayer(gameState)
PlayerConstructed == selectedTiles = <<>>

Init ==
  /\ scn \in Callers
  /\ Constructed
  /\ PlayerConstructed
  /\ result = Void("constructor")
  /\ defenseEnds = 0
  /\ ops = 0
  /\ idle = FALSE

\* Every call that changes the state of the engine or of the defense player
\* counts against MaxOps. A call that changes nothing is explored as a leaf:
\* no operation reads what such a call leaves behind (result), so the calls
\* after it are the calls explored from the state before it.
Counted ==
  /\ idle' = (engine' = engine /\ selectedTiles' = selectedTiles)
  /\ ops' = IF engine' = engine /\ selectedTiles' = selectedTiles THEN ops ELSE ops + 1
  /\ ops' <= MaxOps + scn.deeper

\* the phase check left out
phaseUnchecked(p) == FALSE

\* the phase check of startDefensePhase and placeDefenseTiles
notInDefensePhase(p) == p # DEFENSE

\* startDefensePhase()
StartDefensePhase ==
  LET wrongPhase == notInDefensePhase(phase)
      short == ~canDraw(remainingTiles, totalPaths)
      d == drawTiles(remainingTiles, drawnTiles, totalPaths, <<>>)
  IN  /\ gameOver' = IF ~wrongPhase /\ short THEN TRUE ELSE gameOver
      /\ winner' = IF ~wrongPhase /\ short THEN "defense" ELSE winner
      /\ columns' = IF ~wrongPhase /\ short THEN revealAllTiles(columns) ELSE columns
      /\ currentDraw' = IF ~wrongPhase /\ ~short THEN d.tiles ELSE currentDraw
      /\ remainingTiles' = IF ~wrongPhase /\ ~short THEN d.remaining ELSE remainingTiles
      /\ drawnTiles' = IF ~wrongPhase /\ ~short THEN d.drawn ELSE drawnTiles
      /\ result' = IF wrongPhase THEN Fail("startDefensePhase", "Not in defense phase")
                    ELSE IF short
                      THEN Fail("startDefensePhase", "No more tiles available - Defense wins!")
                      ELSE [Returned("startDefensePhase", TRUE, "") EXCEPT !.tiles = d.tiles]
      /\ UNCHANGED <<turn, phase, defenseTurnCount, firstCycle, gold, units, maxColumn,
                     defenseEnds,
                     rngSeed, tileBagSeed, scn>>
      /\ Counted

\* addColumn that writes the new column over the last one instead of
\* appending it
addColumnOverLast(cols, maxCol, tileTypes) ==
  IF Len(tileTypes) # totalPaths
    THEN [ok |-> FALSE, cols |-> cols, maxCol |-> maxCol]
    ELSE IF maxCol < 0
      THEN [ok |-> TRUE, cols |-> Append(cols, newColumn(tileTypes)), maxCol |-> maxCol + 1]
      ELSE [ok |-> TRUE, cols |-> [cols EXCEPT ![maxCol + 1] = newColumn(tileTypes)],
            maxCol |-> maxCol]

\* Board.addColumn(tileTypes): [ok, cols, maxCol]
addColumn(cols, maxCol, tileTypes) ==
  IF Len(tileTypes) # totalPaths
    THEN [ok |-> FALSE, cols |-> cols, maxCol |-> maxCol]
    ELSE [ok |-> TRUE, cols |-> Append(cols, newColumn(tileTypes)), maxCol |-> maxCol + 1]

\* placeDefenseTiles(tiles)
PlaceDefenseTiles(tiles) ==
  LET wrongPhase == notInDefensePhase(phase)
      wrongCount == Len(tiles) # totalPaths
      added == addColumn(columns, maxColumn, tiles)
      placed == ~wrongPhase /\ ~wrongCount /\ added.ok
  IN  /\ columns' = IF placed THEN added.cols ELSE columns
      /\ maxColumn' = IF placed THEN added.maxCol ELSE maxColumn
      /\ result' = [(IF wrongPhase THEN Fail("placeDefenseTiles", "Not in defense phase")
                      ELSE IF wrongCount
                        THEN Fail("placeDefenseTiles", "Incorrect number of tiles")
                      ELSE IF ~added.ok
                        THEN Fail("placeDefenseTiles", "Failed to place tiles")
                        ELSE Returned("placeDefenseTiles", TRUE, ""))
                       EXCEPT !.given = tiles]
      /\ UNCHANGED <<turn, phase, defenseTurnCount, firstCycle, gold, currentDraw, gameOver,
                     winner, units, remainingTiles, drawnTiles, defenseEnds,
                     rngSeed, tileBagSeed, scn>>
      /\ Counted

\* the count of lines 104-106 without the u.x > -1 test
unitsAliveUntrapped ==
  Cardinality({k \in UnitType : units[k].alive /\ ~units[k].trapped})

\* unitsOnBoard of endDefensePhase
unitsOnBoard ==
  Cardinality({k \in UnitType : units[k].alive /\ units[k].x > 0 - 1 /\ ~units[k].trapped})

\* line 90 without the firstCycle test: two Defense turns in every cycle
takesSecondTurnAlways(first, count) == count < 2

\* line 90, on the counter already incremented: Defense takes its second turn
takesSecondTurn(first, count) == first /\ count < 2

\* endDefensePhase()
EndDefensePhase ==
  LET secondTurn == takesSecondTurn(firstCycle, defenseTurnCount + 1)
  IN  /\ defenseTurnCount' = IF secondTurn THEN defenseTurnCount + 1 ELSE 0
      /\ phase' = IF secondTurn THEN phase ELSE OFFENSE
      /\ firstCycle' = IF secondTurn THEN firstCycle ELSE FALSE
      /\ currentDraw' = <<>>
      /\ gold' = IF secondTurn THEN gold ELSE gold + (goldPerTurn + unitsOnBoard)
      /\ units' = IF secondTurn THEN units
                   ELSE [k \in UnitType |-> enableRespawn(units[k])]
      /\ result' = Void("endDefensePhase")
      /\ defenseEnds' = IF defenseEnds < 3 THEN defenseEnds + 1 ELSE defenseEnds
      /\ UNCHANGED <<turn, gameOver, winner, columns, maxColumn, remainingTiles,
                     drawnTiles, rngSeed, tileBagSeed, scn>>
      /\ Counted

\* the check of lines 151-157 left out
spawnNeverOccupied == FALSE

\* spawnOccupied of spawnUnit
spawnOccupied ==
  \E o \in UnitType : units[o].alive /\ units[o].x = 0 - 1 /\ units[o].spawned

\* spawnUnit's checks without the gold check of lines 147-149
spawnErrorGoldUnchecked(k) ==
  IF k \notin DOMAIN units THEN "Invalid unit type"
  ELSE IF units[k].alive THEN "Unit already alive"
  ELSE IF ~units[k].canRespawn THEN "Unit cannot respawn this turn"
  ELSE IF spawnOccupied THEN "Spawn area occupied"
  ELSE ""

\* spawnUnit's checks without the unit.alive check of lines 138-140
spawnErrorAliveUnchecked(k) ==
  IF k \notin DOMAIN units THEN "Invalid unit type"
  ELSE IF ~units[k].canRespawn THEN "Unit cannot respawn this turn"
  ELSE IF gold < getSpawnCost(k) THEN "Not enough gold"
  ELSE IF spawnOccupied THEN "Spawn area occupied"
  ELSE ""

\* the error of spawnUnit(unitType), "" when the spawn goes through
spawnError(k) ==
  IF k \notin DOMAIN units THEN "Invalid unit type"
  ELSE IF units[k].alive THEN "Unit already alive"
  ELSE IF ~units[k].canRespawn THEN "Unit cannot respawn this turn"
  ELSE IF gold < getSpawnCost(k) THEN "Not enough gold"
  ELSE IF spawnOccupied THEN "Spawn area occupied"
  ELSE ""

\* spawnUnit(unitType)
SpawnUnit(k) ==
  LET error == spawnError(k)
  IN  /\ gold' = IF error = "" THEN gold - getSpawnCost(k) ELSE gold
      /\ units' = IF error = "" THEN [units EXCEPT ![k] = spawn(@, 0)] ELSE units
      /\ result' = [CalledWith(IF error = "" THEN Returned("spawnUnit", TRUE, "")
                                ELSE Fail("spawnUnit", error), k, 0, 0)
                       EXCEPT !.after = <<result.op, result.unit>>]
      /\ UNCHANGED <<turn, phase, defenseTurnCount, firstCycle, currentDraw, gameOver,
                     winner, columns, maxColumn, remainingTiles, drawnTiles, defenseEnds,
                     rngSeed, tileBagSeed, scn>>
      /\ Counted

\* moveUnit(unitType, targetX, targetY)
MoveUnit(k, tx, ty) ==
  LET m == moveUnit(k, tx, ty)
  IN  /\ gold' = m.gold
      /\ units' = m.units
      /\ columns' = m.cols
      /\ gameOver' = m.gameOver
      /\ winner' = m.winner
      /\ result' = CalledWith(m.result, k, tx, ty)
      /\ UNCHANGED <<turn, phase, defenseTurnCount, firstCycle, currentDraw, maxColumn,
                     remainingTiles, drawnTiles, defenseEnds,
                     rngSeed, tileBagSeed, scn>>
      /\ Counted

\* the error of revealAdjacentTile(unitType, targetX, targetY), "" on success
revealError(k, tx, ty) ==
  IF k \notin DOMAIN units THEN "Unit cannot reveal tiles"
  ELSE IF ~units[k].alive \/ ~hasRevealAbility(k) THEN "Unit cannot reveal tiles"
  ELSE LET dx == Abs(tx - units[k].x)
           dy == Abs(ty - units[k].y)
       IN  IF ~((dx = 1 /\ dy = 0) \/ (dx = 0 /\ dy = 1)) THEN "Tile must be adjacent"
           ELSE IF ~isValidPosition(maxColumn, tx, ty) THEN "Invalid position"
           ELSE IF getTile(columns, tx, ty).revealed THEN "Tile already revealed"
           ELSE ""

\* revealAdjacentTile(unitType, targetX, targetY)
RevealAdjacentTile(k, tx, ty) ==
  LET error == revealError(k, tx, ty)
  IN  /\ columns' = IF error = "" THEN revealAt(columns, maxColumn, tx, ty) ELSE columns
      /\ result' = CalledWith(IF error = ""
                                 THEN [Returned("revealAdjacentTile", TRUE, "")
                                         EXCEPT !.tileType = getTile(columns, tx, ty).type]
                                 ELSE Fail("revealAdjacentTile", error), k, tx, ty)
      /\ UNCHANGED <<turn, phase, defenseTurnCount, firstCycle, gold, currentDraw, gameOver,
                     winner, units, maxColumn, remainingTiles, drawnTiles, defenseEnds,
                     rngSeed, tileBagSeed, scn>>
      /\ Counted

RECURSIVE markUnits(_, _)
\* the loop of endOffensePhase that re-marks the tiles under living units
markUnits(cols, i) ==
  IF i > Len(UnitOrder) THEN cols
  ELSE LET u == units[UnitOrder[i]]
       IN  markUnits(IF u.alive /\ isValidPosition(maxColumn, u.x, u.y)
                       THEN setTileHasUnit(cols, maxColumn, u.x, u.y, TRUE)
                       ELSE cols,
                     i + 1)

\* endOffensePhase()
EndOffensePhase ==
  /\ columns' = markUnits(hideRevealedTiles(columns), 1)
  /\ turn' = turn + 1
  /\ phase' = DEFENSE
  /\ result' = [Void("endOffensePhase")
                  EXCEPT !.hidden = turnedFaceDown(columns, hideRevealedTiles(columns))]
  /\ UNCHANGED <<defenseTurnCount, firstCycle, gold, currentDraw, gameOver, winner, units,
                 maxColumn, remainingTiles, drawnTiles, defenseEnds,
                 rngSeed, tileBagSeed, scn>>
  /\ Counted

\* reset()
ResetTo(b) ==
  /\ columns' = <<>>
  /\ maxColumn' = 0 - 1
  /\ remainingTiles' = b.remaining
  /\ drawnTiles' = b.drawn
  /\ rngSeed' = b.rng
  /\ units' = createAllUnits
  /\ turn' = 1
  /\ phase' = DEFENSE
  /\ defenseTurnCount' = 0
  /\ firstCycle' = TRUE
  /\ gold' = scn.startingGold
  /\ currentDraw' = <<>>
  /\ gameOver' = FALSE
  /\ winner' = "none"
  /\ result' = Void("reset")
  /\ defenseEnds' = 0
  /\ ops' = 0
  /\ idle' = FALSE
  /\ UNCHANGED <<tileBagSeed, scn>>

\* GameState.reset(), b being the supply tileBag.reset() rebuilds
Reset == ResetTo(resetBag(scn.seed, rngSeed))

\* the caller issues the operation op; a call that changed nothing leaves
\* the engine where the same calls were already available
\* start() after gameState.reset() has rebuilt the supply b: what
\* defensePlayer.startTurn(), which is startDefensePhase(), finds and draws.
\* reset() leaves the phase at Defense, so the draw is refused only for want
\* of tiles. [short, tiles, remaining, drawn, rng]
started(b) ==
  IF ~canDraw(b.remaining, totalPaths)
    THEN [short |-> TRUE, tiles |-> <<>>, remaining |-> b.remaining, drawn |-> b.drawn,
          rng |-> b.rng]
    ELSE [short |-> FALSE,
          tiles |-> drawTiles(b.remaining, b.drawn, totalPaths, <<>>).tiles,
          remaining |-> drawTiles(b.remaining, b.drawn, totalPaths, <<>>).remaining,
          drawn |-> drawTiles(b.remaining, b.drawn, totalPaths, <<>>).drawn,
          rng |-> b.rng]

\* the state the restart with seed leaves, st being what start() found
RestartedAs(seed, st) ==
  /\ tileBagSeed' = seed
  /\ rngSeed' = st.rng
  /\ columns' = <<>>
  /\ maxColumn' = 0 - 1
  /\ units' = createAllUnits
  /\ turn' = 1
  /\ phase' = DEFENSE
  /\ defenseTurnCount' = 0
  /\ firstCycle' = TRUE
  /\ gold' = scn.startingGold
  /\ gameOver' = st.short
  /\ winner' = IF st.short THEN "defense" ELSE "none"
  /\ currentDraw' = st.tiles
  /\ remainingTiles' = st.remaining
  /\ drawnTiles' = st.drawn
  /\ result' = [Void("restartWithSeed")
                  EXCEPT !.during = DEFENSE,
                         !.given = <<seed>>,
                         !.success = ~st.short,
                         !.tiles = st.tiles]
  /\ defenseEnds' = 0
  /\ ops' = 0
  /\ idle' = FALSE
  /\ UNCHANGED scn

\* RockfallGame.restartWithSeed(seed) (main.js), and the Enter key of the
\* 'Replay with Seed' input (controls.js): config.tileBagSeed = seed, then
\* gameState.reset(), then defensePlayer.startTurn().
RestartWithSeed(seed) == RestartedAs(seed, started(resetBag(scn.seed, rngSeed)))

Calls(op) == op \in scn.calls /\ ~idle

\* the calls that run GameState.reset()
Resets == {"reset", "restartWithSeed"}

Next ==
  \/ Calls("startDefensePhase") /\ UNCHANGED selectedTiles /\ StartDefensePhase
  \/ Calls("placeDefenseTiles") /\ UNCHANGED selectedTiles /\
       \E tiles \in scn.placements : PlaceDefenseTiles(tiles)
  \/ Calls("endDefensePhase") /\ UNCHANGED selectedTiles /\ EndDefensePhase
  \/ Calls("spawnUnit") /\ UNCHANGED selectedTiles /\ \E k \in scn.kinds : SpawnUnit(k)
  \/ Calls("moveUnit") /\ UNCHANGED selectedTiles /\
       \E k \in scn.kinds : \E t \in MoveTargets(k) : MoveUnit(k, t[1], t[2])
  \/ Calls("revealAdjacentTile") /\ UNCHANGED selectedTiles /\
       \E k \in scn.kinds : \E t \in RevealTargets(k) : RevealAdjacentTile(k, t[1], t[2])
  \/ Calls("endOffensePhase") /\ UNCHANGED selectedTiles /\ EndOffensePhase
  \/ Calls("reset") /\ UNCHANGED selectedTiles /\ Reset
  \/ Calls("restartWithSeed") /\ UNCHANGED selectedTiles /\
       \E seed \in ReplaySeeds : RestartWithSeed(seed)

Spec == Init /\ [][Next]_vars

(***************************************************************************)
(* The TileBag on its own: a supply built from config.tileBag with one of  *)
(* the seeds below, on which drawTile, drawTiles and reset are called in   *)
(* any order. A second supply, the twin, is built with the same seed and   *)
(* counts and given the same draw calls; when the first is reset, the twin *)
(* is built anew.                                                          *)
(***************************************************************************)
\* Number of calls made on the supply.
MaxBagCalls == 5

\* Largest count passed to drawTiles.
MaxDraw == 3

\* positive, zero, negative, a multiple of the modulus, and the seed whose
\* remainder is -(Modulus - 1)
BagSeeds == {1, 42, 0, 0 - 7, 2147483647, 0 - 2147483646}

BagCallers ==
  { [calls |-> {"drawTile", "drawTiles", "reset"},
     kinds |-> {},
     placements |-> {},
     seed |-> seed,
     startingGold |-> startingGold,
     deeper |-> 0] : seed \in BagSeeds }

\* new TileBag(config.tileBag, seed): [remaining, drawn, rng, tiles], tiles
\* being what the last call on it returned
newBag(seed) ==
  [remaining |-> initialSupply(seed), drawn |-> <<>>, rng |-> initialRng(seed),
   tiles |-> <<>>]

InitBag ==
  /\ scn \in BagCallers
  /\ Constructed
  /\ PlayerConstructed
  /\ result = [Void("constructor") EXCEPT !.twin = newBag(scn.seed)]
  /\ defenseEnds = 0
  /\ ops = 0
  /\ idle = FALSE

\* the part of the state no call on the supply touches
BagOnly ==
  /\ ops < MaxBagCalls
  /\ ops' = ops + 1
  /\ UNCHANGED <<turn, phase, defenseTurnCount, firstCycle, gold, currentDraw, gameOver,
                 winner, units, columns, maxColumn, tileBagSeed, defenseEnds, idle, scn, selectedTiles>>

\* the call made on a supply b: [remaining, drawn, rng, tiles] after it.
\* drawTile() returns one tile, or null (no tile) when the supply is empty.
callBag(b, seed, op, count) ==
  IF op = "reset"
    THEN [remaining |-> resetBag(seed, b.rng).remaining,
          drawn |-> resetBag(seed, b.rng).drawn,
          rng |-> resetBag(seed, b.rng).rng,
          tiles |-> <<>>]
    ELSE [remaining |-> drawTiles(b.remaining, b.drawn, count, <<>>).remaining,
          drawn |-> drawTiles(b.remaining, b.drawn, count, <<>>).drawn,
          rng |-> b.rng,
          tiles |-> drawTiles(b.remaining, b.drawn, count, <<>>).tiles]

\* the supply of the state
thisBag ==
  [remaining |-> remainingTiles, drawn |-> drawnTiles, rng |-> rngSeed, tiles |-> <<>>]

\* a call on the supply, and on its twin the same draw or a new construction;
\* after is the call before this one and the length of the drawn history
\* this call found
BagCall(op, count) ==
  /\ remainingTiles' = callBag(thisBag, scn.seed, op, count).remaining
  /\ drawnTiles' = callBag(thisBag, scn.seed, op, count).drawn
  /\ rngSeed' = callBag(thisBag, scn.seed, op, count).rng
  /\ result' = [Returned(op, TRUE, "")
                  EXCEPT !.tiles = callBag(thisBag, scn.seed, op, count).tiles,
                         !.given = <<count>>,
                         !.after = <<result.op, Len(drawnTiles)>>,
                         !.returned = op # "reset",
                         !.twin = IF op = "reset" THEN newBag(scn.seed)
                                  ELSE callBag(result.twin, scn.seed, op, count)]
  /\ BagOnly

\* TileBag.drawTile()
DrawTile == BagCall("drawTile", 1)

\* TileBag.drawTiles(count)
DrawTiles(count) == BagCall("drawTiles", count)

\* TileBag.reset()
ResetBag == BagCall("reset", 0)

NextBag ==
  \/ DrawTile
  \/ \E count \in 0..MaxDraw : DrawTiles(count)
  \/ ResetBag

SpecBag == InitBag /\ [][NextBag]_vars

(***************************************************************************)
(* The SeededRandom on its own: a generator constructed with one of the    *)
(* seeds below, on which next, nextInt(0, max) and reset(seed) are called  *)
(* in any order. rngSeed is its state; there is no game and no supply.     *)
(***************************************************************************)
\* Number of calls made on the generator.
MaxRngCalls == 4

\* Largest max passed to nextInt(0, max).
MaxIndex == 3

\* positive, zero, negative, multiples of the modulus either side of zero,
\* and the seed whose remainder is -(Modulus - 1)
RngSeeds == {1, 42, 0, 0 - 1, 2147483647, 0 - 2147483647, 2147483646, 0 - 2147483646}

RngCallers ==
  { [calls |-> {"next", "nextInt", "reset"},
     kinds |-> {},
     placements |-> {},
     seed |-> seed,
     startingGold |-> startingGold,
     deeper |-> 0] : seed \in RngSeeds }

\* the value next() returns on reaching state s, (s - 1) / 2147483646, as
\* numerator and denominator
nextValue(s) == <<s - 1, 2147483646>>

InitRng ==
  /\ scn \in RngCallers
  /\ PlayerConstructed
  /\ rngSeed = SeedState(scn.seed)
  /\ tileBagSeed = scn.seed
  /\ remainingTiles = <<>>
  /\ drawnTiles = <<>>
  /\ turn = 1
  /\ phase = DEFENSE
  /\ defenseTurnCount = 0
  /\ firstCycle = TRUE
  /\ gold = scn.startingGold
  /\ currentDraw = <<>>
  /\ gameOver = FALSE
  /\ winner = "none"
  /\ units = createAllUnits
  /\ columns = <<>>
  /\ maxColumn = 0 - 1
  /\ result = Void("constructor")
  /\ defenseEnds = 0
  /\ ops = 0
  /\ idle = FALSE

\* the part of the state no call on the generator touches
RngOnly ==
  /\ ops < MaxRngCalls
  /\ ops' = ops + 1
  /\ UNCHANGED <<turn, phase, defenseTurnCount, firstCycle, gold, currentDraw, gameOver,
                 winner, units, columns, maxColumn, remainingTiles, drawnTiles,
                 tileBagSeed, defenseEnds, idle, scn, selectedTiles>>

\* SeededRandom.next()
RngNext ==
  /\ rngSeed' = RngAdvance(rngSeed)
  /\ result' = [Returned("next", TRUE, "") EXCEPT !.value = nextValue(RngAdvance(rngSeed))]
  /\ RngOnly

\* SeededRandom.nextInt(0, max)
RngNextInt(max) ==
  /\ rngSeed' = RngAdvance(rngSeed)
  /\ result' = [Returned("nextInt", TRUE, "")
                  EXCEPT !.given = <<0, max>>,
                         !.value = NextIntFrom(RngAdvance(rngSeed), max)]
  /\ RngOnly

\* SeededRandom.reset(seed)
RngReset(seed) ==
  /\ rngSeed' = SeedState(seed)
  /\ result' = [Void("reset") EXCEPT !.given = <<seed>>]
  /\ RngOnly

NextRng ==
  \/ RngNext
  \/ \E max \in 0..MaxIndex : RngNextInt(max)
  \/ \E seed \in RngSeeds : RngReset(seed)

SpecRng == InitRng /\ [][NextRng]_vars

(***************************************************************************)
(* The Unit on its own: a unit of one kind, spawned into the spawn zone    *)
(* and put by moveTo on any position of a board of MaxUnitColumn + 1       *)
(* columns, on which getMovementOptions(totalPaths) is called. result      *)
(* holds the position the unit was asked at (tx, ty) and the array         *)
(* returned (value).                                                       *)
(***************************************************************************)
\* Number of calls made on the unit.
MaxUnitCalls == 3

\* Highest column moveTo puts the unit on.
MaxUnitColumn == 3

UnitCallers ==
  { [calls |-> {"spawn", "moveTo", "getMovementOptions"},
     kinds |-> {k},
     placements |-> {},
     seed |-> 1,
     startingGold |-> startingGold,
     deeper |-> 0] : k \in UnitType }

InitUnit ==
  /\ scn \in UnitCallers
  /\ Constructed
  /\ PlayerConstructed
  /\ result = Void("constructor")
  /\ defenseEnds = 0
  /\ ops = 0
  /\ idle = FALSE

\* the part of the state no call on a unit touches
UnitOnly ==
  /\ ops < MaxUnitCalls
  /\ ops' = ops + 1
  /\ UNCHANGED <<turn, phase, defenseTurnCount, firstCycle, gold, currentDraw, gameOver,
                 winner, columns, maxColumn, remainingTiles, drawnTiles, rngSeed,
                 tileBagSeed, defenseEnds, idle, scn, selectedTiles>>

\* Unit.spawn(0), as spawnUnit calls it
UnitSpawn(k) ==
  /\ ~units[k].alive
  /\ units' = [units EXCEPT ![k] = spawn(@, 0)]
  /\ result' = [Void("spawn") EXCEPT !.unit = k]
  /\ UnitOnly

\* Unit.moveTo(x, y)
UnitMoveTo(k, x, y) ==
  /\ units[k].alive
  /\ units' = [units EXCEPT ![k] = moveTo(@, x, y)]
  /\ result' = [Void("moveTo") EXCEPT !.unit = k, !.tx = x, !.ty = y]
  /\ UnitOnly

\* Unit.getMovementOptions(totalPaths)
UnitOptions(k) ==
  /\ units[k].alive
  /\ UNCHANGED units
  /\ result' = [Returned("getMovementOptions", TRUE, "")
                  EXCEPT !.unit = k, !.tx = units[k].x, !.ty = units[k].y,
                         !.value = getMovementOptions(k, units[k])]
  /\ UnitOnly

NextUnit ==
  \/ \E k \in scn.kinds : UnitSpawn(k)
  \/ \E k \in scn.kinds : \E x \in 0..MaxUnitColumn : \E y \in 0..(totalPaths - 1) :
       UnitMoveTo(k, x, y)
  \/ \E k \in scn.kinds : UnitOptions(k)

SpecUnit == InitUnit /\ [][NextUnit]_vars

(***************************************************************************)
(* The game driven through its DefensePlayer (player/defense.js): the      *)
(* caller draws with startTurn, assigns tiles to rows, and places them     *)
(* with placeTiles or autoPlace. The result of a call that reaches the     *)
(* engine is the result of the engine's call, which the player returns. A  *)
(* caller passes assignTileToRow the rows and tile types of its assigns.   *)
(***************************************************************************)
DefenseCallers ==
  { [calls |-> {"startTurn", "autoPlace", "placeTiles", "endTurn"},
     kinds |-> {},
     placements |-> {},
     assigns |-> {},
     seed |-> 1,
     startingGold |-> startingGold,
     deeper |-> 0 - 4],
    [calls |-> {"startTurn", "assignTileToRow", "placeTiles"},
     kinds |-> {},
     placements |-> {},
     assigns |-> { <<0, BLANK>>, <<1, BLANK>>, <<2, PUSHBACK_TRAP>>, <<3, SPIKE_TRAP>>,
                   <<2, BLANK>>, <<1, WALL>>, <<totalPaths, BLANK>> },
     seed |-> 1,
     startingGold |-> startingGold,
     deeper |-> 4],
    [calls |-> {"startTurn", "assignTileToRow", "clearAssignment", "clearAllAssignments",
                "placeTiles", "autoPlace", "endTurn"},
     kinds |-> {},
     placements |-> {},
     assigns |-> (0..totalPaths) \X {BLANK, SPIKE_TRAP, WALL},
     seed |-> 42,
     startingGold |-> startingGold,
     deeper |-> 0 - 4] }

InitDefense ==
  /\ scn \in DefenseCallers
  /\ Constructed
  /\ PlayerConstructed
  /\ result = Void("constructor")
  /\ defenseEnds = 0
  /\ ops = 0
  /\ idle = FALSE

\* selectedTiles.set(row, tile)
setRow(selected, row, tile) ==
  [r \in (DOMAIN selected) \cup {row} |-> IF r = row THEN tile ELSE selected[r]]

\* selectedTiles.delete(row)
deleteRow(selected, row) == [r \in (DOMAIN selected) \ {row} |-> selected[r]]

\* selectedTiles.get(row) || null
getRow(selected, row) == IF row \in DOMAIN selected THEN selected[row] ELSE "null"

\* getAvailableTiles().includes(tile): the tile is in the draw and fewer
\* rows hold it than the draw has of it
available(selected, draw, tile) ==
  /\ \E i \in 1..Len(draw) : draw[i] = tile
  /\ Cardinality({r \in DOMAIN selected : selected[r] = tile})
       < Cardinality({i \in 1..Len(draw) : draw[i] = tile})

\* isPlacementComplete()
isPlacementComplete(selected) == Cardinality(DOMAIN selected) = totalPaths

\* orderedTiles of placeTiles
orderedTiles(selected) == [r \in 1..totalPaths |-> selected[r - 1]]

\* tiles.splice(index, 1), index counted from 1
splice(tiles, index) ==
  [i \in 1..(Len(tiles) - 1) |-> IF i < index THEN tiles[i] ELSE tiles[i + 1]]

\* the orders in which the loop of autoPlace can fill rows rows from tiles:
\* Math.random picks any index; from an empty array it picks undefined
RECURSIVE randomOrders(_, _)
randomOrders(tiles, rows) ==
  IF rows = 0 THEN {<<>>}
  ELSE IF tiles = <<>>
    THEN {<<UNDEFINED>> \o rest : rest \in randomOrders(tiles, rows - 1)}
    ELSE UNION {{<<tiles[i]>> \o rest : rest \in randomOrders(splice(tiles, i), rows - 1)} :
                  i \in 1..Len(tiles)}

\* result.success of startDefensePhase()
drawSucceeds == ~notInDefensePhase(phase) /\ canDraw(remainingTiles, totalPaths)

\* result.success of placeDefenseTiles(tiles)
placementSucceeds(tiles) ==
  /\ ~notInDefensePhase(phase)
  /\ Len(tiles) = totalPaths
  /\ addColumn(columns, maxColumn, tiles).ok

\* a call that stays within the player
PlayerOnly ==
  /\ UNCHANGED <<engine, defenseEnds, scn>>
  /\ Counted

\* startTurn()
StartTurn ==
  /\ selectedTiles' = IF drawSucceeds THEN <<>> ELSE selectedTiles
  /\ StartDefensePhase

\* assignTileToRow(row, tileType)
AssignTileToRow(row, tileType) ==
  LET assigned == row >= 0 /\ row < totalPaths
                  /\ available(selectedTiles, currentDraw, tileType)
  IN  /\ selectedTiles' = IF assigned THEN setRow(selectedTiles, row, tileType)
                           ELSE selectedTiles
      /\ result' = [Returned("assignTileToRow", assigned, "")
                      EXCEPT !.ty = row, !.given = <<tileType>>,
                             !.value = IF assigned THEN <<getRow(selectedTiles, row)>>
                                       ELSE <<"null">>]
      /\ PlayerOnly

\* clearAssignment(row)
ClearAssignment(row) ==
  /\ selectedTiles' = deleteRow(selectedTiles, row)
  /\ result' = [Void("clearAssignment") EXCEPT !.ty = row]
  /\ PlayerOnly

\* clearAllAssignments()
ClearAllAssignments ==
  /\ selectedTiles' = <<>>
  /\ result' = Void("clearAllAssignments")
  /\ PlayerOnly

\* placeTiles()
PlaceTiles ==
  IF ~isPlacementComplete(selectedTiles)
    THEN /\ result' = Fail("placeTiles", "Not all tiles have been assigned")
         /\ UNCHANGED selectedTiles
         /\ PlayerOnly
    ELSE /\ selectedTiles' = IF placementSucceeds(orderedTiles(selectedTiles)) THEN <<>>
                              ELSE selectedTiles
         /\ PlaceDefenseTiles(orderedTiles(selectedTiles))

\* endTurn()
EndTurn ==
  /\ selectedTiles' = <<>>
  /\ EndDefensePhase

\* autoPlace(), order being the tiles the loop picked for rows 0, 1, ...
AutoPlace(order) ==
  /\ selectedTiles' = IF placementSucceeds(order) THEN <<>>
                       ELSE [r \in 0..(totalPaths - 1) |-> order[r + 1]]
  /\ PlaceDefenseTiles(order)

NextDefense ==
  \/ Calls("startTurn") /\ StartTurn
  \/ Calls("assignTileToRow") /\ \E a \in scn.assigns : AssignTileToRow(a[1], a[2])
  \/ Calls("clearAssignment") /\ \E row \in 0..(totalPaths - 1) : ClearAssignment(row)
  \/ Calls("clearAllAssignments") /\ ClearAllAssignments
  \/ Calls("placeTiles") /\ PlaceTiles
  \/ Calls("endTurn") /\ EndTurn
  \/ Calls("autoPlace") /\ \E order \in randomOrders(currentDraw, totalPaths) : AutoPlace(order)

SpecDefense == InitDefense /\ [][NextDefense]_vars

(***************************************************************************)
(* Properties. A step of a call is recognised by the call recorded in      *)
(* result'; the unprimed variables are the state the call found.           *)
(***************************************************************************)
\* the five conditions of spec section 4.5 on the state the call finds
MoveConditions(k, tx, ty) ==
  /\ k \in UnitType
  /\ units[k].alive /\ ~units[k].trapped
  /\ gold >= unitCosts[k].move
  /\ \E i \in 1..Len(getMovementOptions(k, units[k])) :
        getMovementOptions(k, units[k])[i] = <<tx - units[k].x, ty - units[k].y>>
  /\ (tx >= 0 /\ tx <= maxColumn /\ ty >= 0 /\ ty < totalPaths) \/ tx > maxColumn
  /\ \A o \in UnitType \ {k} : ~(units[o].alive /\ units[o].x = tx /\ units[o].y = ty)

\* the call returned one of the rejections that precede the payment
MoveWasRejected(r) == ~r.success /\ ~r.goldLost

\* C1: moveUnit(unit, x, y) is accepted (the gold is paid and the move is
\* attempted) exactly when the unit exists, is alive and not trapped, the gold
\* covers its move cost, the offset is one of its legal offsets, the target is
\* on the board or beyond its last column, and no other living unit stands on
\* the target; otherwise it returns success = false and gold, units and tiles
\* are unchanged.
C1_MoveAcceptedIff ==
  [][result'.op = "moveUnit" =>
       LET k == result'.unit
           tx == result'.tx
           ty == result'.ty
       IN  IF MoveConditions(k, tx, ty)
             THEN /\ ~MoveWasRejected(result')
                  /\ gold' = gold - unitCosts[k].move
                               + (IF result'.effects.treasure THEN 4 ELSE 0)
             ELSE /\ MoveWasRejected(result')
                  /\ gold' = gold /\ units' = units /\ columns' = columns]_vars

\* a move was accepted and took the unit to the target tile
C1_Witness ==
  /\ result.op = "moveUnit" /\ result.success /\ ~result.win
  /\ units[result.unit].alive
  /\ units[result.unit].x = result.tx /\ units[result.unit].y = result.ty
  /\ \E o \in UnitType \ {result.unit} : units[o].alive /\ units[o].x >= 0

\* the accepted move finds a wall on its target tile
MoveFindsWall(k, tx, ty) ==
  /\ MoveConditions(k, tx, ty)
  /\ tx <= maxColumn
  /\ getTile(columns, tx, ty).type = WALL

\* what the wall protocol leaves behind, the wall's revealed flag apart
WallProtocol(k, tx, ty) ==
  /\ units'[k].x = units[k].x /\ units'[k].y = units[k].y
  /\ (units[k].x >= 0 => getTile(columns', units[k].x, units[k].y).hasUnit)
  /\ gold' = gold - unitCosts[k].move
  /\ ~result'.success
  /\ result'.error = "Movement blocked by wall"
  /\ result'.goldLost

\* C2 as stated: for every unit kind, an accepted move onto a wall leaves the
\* unit where it was, its origin tile marked occupied, the gold reduced by the
\* move cost, returns success = false with error "Movement blocked by wall"
\* and goldLost = true, and the wall tile is revealed when it returns.
C2_WallAlwaysRevealed ==
  [][(result'.op = "moveUnit" /\ MoveFindsWall(result'.unit, result'.tx, result'.ty)) =>
       /\ WallProtocol(result'.unit, result'.tx, result'.ty)
       /\ getTile(columns', result'.tx, result'.ty).revealed]_vars

\* C2, amended: as stated, except that the wall tile is revealed by the call
\* only when the move is not a jumper's jump move (2 tiles orthogonally or
\* diagonally); a jump move leaves the wall's revealed flag as it was.
C2_WallProtocol ==
  [][(result'.op = "moveUnit" /\ MoveFindsWall(result'.unit, result'.tx, result'.ty)) =>
       LET k == result'.unit
           tx == result'.tx
           ty == result'.ty
           dx == tx - units[k].x
           dy == ty - units[k].y
           jump == k = JUMPER /\ Abs(dx) \in {0, 2} /\ Abs(dy) \in {0, 2}
       IN  /\ WallProtocol(k, tx, ty)
           /\ getTile(columns', tx, ty).revealed =
                (getTile(columns, tx, ty).revealed \/ ~jump)]_vars

\* a jumper's jump was blocked by a wall that stays hidden
C2_Witness ==
  /\ result.op = "moveUnit" /\ result.unit = JUMPER
  /\ result.error = "Movement blocked by wall" /\ result.goldLost
  /\ getTile(columns, result.tx, result.ty).type = WALL
  /\ ~getTile(columns, result.tx, result.ty).revealed

\* C3: an accepted move whose target column lies beyond the last board column
\* deducts the move cost, sets gameOver with winner = "offense", reveals every
\* tile, does not change the unit's position, and returns success with
\* effects.win = true.
C3_OffenseWin ==
  [][(/\ result'.op = "moveUnit"
      /\ MoveConditions(result'.unit, result'.tx, result'.ty)
      /\ result'.tx > maxColumn) =>
       /\ gold' = gold - unitCosts[result'.unit].move
       /\ gameOver' /\ winner' = "offense"
       /\ Len(columns') = Len(columns)
       /\ \A c \in 1..Len(columns) : \A r \in 1..totalPaths :
            columns'[c][r] = [columns[c][r] EXCEPT !.revealed = TRUE]
       /\ units' = units
       /\ result'.success /\ result'.win]_vars

\* a unit standing on the last column moved beyond it and won
C3_Witness ==
  /\ result.op = "moveUnit" /\ result.success /\ result.win
  /\ gameOver /\ winner = "offense"
  /\ maxColumn >= 0
  /\ units[result.unit].x = maxColumn /\ result.tx = maxColumn + 1

\* C4: startDefensePhase invoked (in the Defense phase) while the supply holds
\* fewer than totalPaths tiles sets gameOver with winner = "defense", reveals
\* every tile and draws nothing; otherwise it draws exactly totalPaths tiles,
\* taken from the end of the supply.
C4_DefenseWinOrDraw ==
  [][(result'.op = "startDefensePhase" /\ phase = DEFENSE) =>
       LET n == Len(remainingTiles)
       IN  IF n < totalPaths
             THEN /\ gameOver' /\ winner' = "defense"
                  /\ Len(columns') = Len(columns)
                  /\ \A c \in 1..Len(columns) : \A r \in 1..totalPaths :
                       columns'[c][r] = [columns[c][r] EXCEPT !.revealed = TRUE]
                  /\ remainingTiles' = remainingTiles
                  /\ drawnTiles' = drawnTiles
                  /\ currentDraw' = currentDraw
                  /\ result'.tiles = <<>>
             ELSE /\ result'.success
                  /\ Len(result'.tiles) = totalPaths
                  /\ \A i \in 1..totalPaths : result'.tiles[i] = remainingTiles[n - i + 1]
                  /\ remainingTiles' = SubSeq(remainingTiles, 1, n - totalPaths)
                  /\ drawnTiles' = drawnTiles \o result'.tiles
                  /\ currentDraw' = result'.tiles
                  /\ gameOver' = gameOver /\ winner' = winner /\ columns' = columns]_vars

\* the supply, not yet empty, could not furnish a draw: Defense won on a
\* board with tiles to reveal
C4_Witness ==
  /\ result.op = "startDefensePhase"
  /\ result.error = "No more tiles available - Defense wins!"
  /\ gameOver /\ winner = "defense"
  /\ Len(remainingTiles) > 0 /\ Len(remainingTiles) < totalPaths
  /\ maxColumn >= 0

\* C5 as stated: once gameOver is true, every operation other than reset
\* leaves gameOver, winner, phase, turn, gold, units and tiles unchanged.
C5_TerminalState ==
  [][(gameOver /\ result'.op \notin Resets) =>
       /\ gameOver' = gameOver /\ winner' = winner
       /\ phase' = phase /\ turn' = turn /\ gold' = gold
       /\ units' = units /\ columns' = columns]_vars

\* C5, amended: once gameOver is true it stays true until reset, so it becomes
\* true at most once per game; the engine itself does not refuse operations
\* after the game is over (callers check isGameOver()), so the other fields
\* may still change.
C5_GameOverSticks ==
  [][(gameOver /\ result'.op \notin Resets) => gameOver']_vars

\* the game was over and a later endOffensePhase still advanced the turn
C5_Witness ==
  /\ gameOver
  /\ result.op = "endOffensePhase"
  /\ turn > 1

C7_PhaseDiscipline ==
  [][(\/ /\ result'.op \in {"startDefensePhase", "placeDefenseTiles", "endDefensePhase"}
         /\ phase = OFFENSE
      \/ /\ result'.op \in {"spawnUnit", "moveUnit", "endOffensePhase"}
         /\ phase = DEFENSE) =>
       UNCHANGED <<phase, turn, gold, units, columns, maxColumn, remainingTiles,
                   drawnTiles>>]_vars

\* C7, amended: startDefensePhase and placeDefenseTiles take effect only
\* while phase = Defense; invoked during the Offense phase they return the
\* error "Not in defense phase" and change none of phase, turn, gold, units,
\* board and supply. The other operations are not phase-checked by the engine.
C7_DefenseOpsChecked ==
  [][(result'.op \in {"startDefensePhase", "placeDefenseTiles"} /\ phase = OFFENSE) =>
       /\ ~result'.success
       /\ result'.error = "Not in defense phase"
       /\ UNCHANGED <<phase, turn, gold, units, columns, maxColumn, remainingTiles,
                      drawnTiles, currentDraw, gameOver, winner>>]_vars

\* a full column offered during the Offense phase was refused
C7_Witness ==
  /\ result.op = "placeDefenseTiles" /\ result.during = OFFENSE
  /\ Len(result.given) = totalPaths
  /\ result.error = "Not in defense phase"
  /\ phase = OFFENSE

\* the call returned a failure result from one of the five checked operations
FailureReturned(r) ==
  /\ r.op \in {"startDefensePhase", "placeDefenseTiles", "spawnUnit", "moveUnit",
               "revealAdjacentTile"}
  /\ r.returned /\ ~r.success

\* C8 as stated: every failure result of startDefensePhase, placeDefenseTiles,
\* spawnUnit, moveUnit and revealAdjacentTile leaves phase, turn, gold, units,
\* tiles and supply as they were, except the wall-discovery move, which loses
\* exactly the move cost.
C8_NoPartialMutation ==
  [][FailureReturned(result') =>
       IF result'.goldLost
         THEN /\ gold' = gold - unitCosts[result'.unit].move
              /\ UNCHANGED <<phase, turn, units, maxColumn, remainingTiles, drawnTiles>>
         ELSE UNCHANGED <<phase, turn, gold, units, columns, maxColumn, remainingTiles,
                          drawnTiles>>]_vars

\* C8, amended: a failure result leaves phase, turn, gold, units, tiles and
\* supply as they were, with two exceptions: the wall-discovery move, which
\* loses exactly the move cost (and may turn the wall face up and mark the
\* unit's origin tile occupied), and the startDefensePhase call that finds the
\* supply short, which reports success = false while it ends the game for
\* Defense and reveals every tile.
C8_FailureLeavesState ==
  [][FailureReturned(result') =>
       IF result'.goldLost
         THEN LET k == result'.unit
              IN  /\ gold' = gold - unitCosts[k].move
                  /\ UNCHANGED <<phase, turn, units, maxColumn, remainingTiles, drawnTiles,
                                 gameOver, winner>>
                  /\ Len(columns') = Len(columns)
                  /\ \A c \in 1..Len(columns) : \A r \in 1..totalPaths :
                       \/ columns'[c][r] = columns[c][r]
                       \/ /\ c = result'.tx + 1 /\ r = result'.ty + 1
                          /\ columns'[c][r] = [columns[c][r] EXCEPT !.revealed = TRUE]
                       \/ /\ c = units[k].x + 1 /\ r = units[k].y + 1
                          /\ columns'[c][r] = [columns[c][r] EXCEPT !.hasUnit = TRUE]
         ELSE IF result'.error = "No more tiles available - Defense wins!"
           THEN /\ UNCHANGED <<phase, turn, gold, units, maxColumn, remainingTiles,
                               drawnTiles>>
                /\ gameOver' /\ winner' = "defense"
                /\ Len(columns') = Len(columns)
                /\ \A c \in 1..Len(columns) : \A r \in 1..totalPaths :
                     columns'[c][r] = [columns[c][r] EXCEPT !.revealed = TRUE]
           ELSE UNCHANGED <<phase, turn, gold, units, columns, maxColumn, remainingTiles,
                            drawnTiles, gameOver, winner>>]_vars

\* a move that passed every check but the last was refused
C8_Witness ==
  /\ result.op = "moveUnit" /\ result.returned /\ ~result.success
  /\ result.error = "Target position occupied by another unit"
  /\ gold >= unitCosts[result.unit].move

\* C9: gold is never negative between operations.
C9_GoldNonNegative == gold >= 0

\* a payment took the gold to exactly zero
C9_Witness ==
  /\ gold = 0
  /\ result.op \in {"spawnUnit", "moveUnit"} /\ result.success
  /\ units[result.unit].alive

\* C10: the endDefensePhase call that switches the phase to Offense raises
\* gold by goldPerTurn plus the number of units that are alive, not trapped
\* and on the board (x >= 0), and makes every dead unit eligible to respawn.
C10_Income ==
  [][(result'.op = "endDefensePhase" /\ phase = DEFENSE /\ phase' = OFFENSE) =>
       /\ gold' = gold + goldPerTurn
                    + Cardinality({k \in UnitType :
                                     units[k].alive /\ ~units[k].trapped /\ units[k].x >= 0})
       /\ \A k \in UnitType : ~units[k].alive => units'[k].canRespawn]_vars

\* the switching call found two units on the board and paid the bonus for two
C10_Witness ==
  /\ result.op = "endDefensePhase" /\ result.during = DEFENSE
  /\ phase = OFFENSE
  /\ Cardinality({k \in UnitType : units[k].alive /\ ~units[k].trapped /\ units[k].x >= 0}) = 2


\* C11 as stated: with gold exactly the basic unit's spawn cost (2) and a free
\* spawn zone, spawnUnit(basic), for a basic unit that can be spawned,
\* succeeds and leaves gold = 0; the spawnUnit call that immediately follows,
\* for any of the five unit kinds, fails with "Not enough gold" and changes
\* nothing.
C11_SecondSpawnNotEnoughGold ==
  [][/\ (/\ result'.op = "spawnUnit" /\ result'.unit = BASIC
         /\ gold = 2
         /\ ~units[BASIC].alive /\ units[BASIC].canRespawn
         /\ ~\E o \in UnitType : units[o].alive /\ units[o].spawned /\ units[o].x = 0 - 1) =>
          (result'.success /\ gold' = 0)
     /\ (/\ result.op = "spawnUnit" /\ result.unit = BASIC /\ result.success
         /\ gold = 0
         /\ result'.op = "spawnUnit" /\ result'.unit \in UnitType) =>
          (/\ ~result'.success
           /\ result'.error = "Not enough gold"
           /\ engine' = engine)]_vars

\* C11, amended: with gold exactly 2, a free spawn zone and the basic unit
\* dead and eligible to respawn, spawnUnit(basic) succeeds, leaves gold = 0
\* and the basic unit alive in the spawn zone; the spawnUnit call that
\* immediately follows fails for every unit kind and changes nothing. Its
\* error is "Not enough gold" only for a unit that is dead and eligible to
\* respawn: the unit is checked before the gold, so the error is "Unit already
\* alive" for a living unit (the basic unit just spawned among them) and
\* "Unit cannot respawn this turn" for a dead unit not yet eligible.
C11_SecondSpawnFails ==
  [][/\ (/\ result'.op = "spawnUnit" /\ result'.unit = BASIC
         /\ gold = 2
         /\ ~units[BASIC].alive /\ units[BASIC].canRespawn
         /\ ~\E o \in UnitType : units[o].alive /\ units[o].spawned /\ units[o].x = 0 - 1) =>
          (/\ result'.success /\ gold' = 0
           /\ units'[BASIC].alive /\ units'[BASIC].x = 0 - 1)
     /\ (/\ result.op = "spawnUnit" /\ result.unit = BASIC /\ result.success
         /\ gold = 0
         /\ result'.op = "spawnUnit" /\ result'.unit \in UnitType) =>
          (/\ ~result'.success
           /\ result'.error =
                (IF units[result'.unit].alive THEN "Unit already alive"
                 ELSE IF ~units[result'.unit].canRespawn THEN "Unit cannot respawn this turn"
                 ELSE "Not enough gold")
           /\ engine' = engine)]_vars

\* the basic unit was spawned with the last 2 gold and the spawn of another
\* kind, called next, was refused for want of gold
C11_Witness ==
  /\ result.op = "spawnUnit" /\ result.after = <<"spawnUnit", BASIC>>
  /\ result.unit \in UnitType \ {BASIC}
  /\ ~result.success /\ result.error = "Not enough gold"
  /\ gold = 0
  /\ units[BASIC].alive /\ units[BASIC].spawned /\ units[BASIC].x = 0 - 1


\* the units that are alive, spawned and in the spawn zone (x = -1)
InSpawnZone(us) == {k \in UnitType : us[k].alive /\ us[k].spawned /\ us[k].x = 0 - 1}

\* no operation but reset takes a living unit from the board to the spawn zone
NeverBackToSpawnZone ==
  [][result'.op \notin Resets =>
       \A k \in UnitType :
         (units[k].alive /\ units[k].x >= 0 /\ units'[k].alive) => units'[k].x >= 0]_vars

\* C12 as stated: in every reachable state at most one unit is alive, spawned
\* and in the spawn zone; while such a unit exists spawnUnit is rejected with
\* "Spawn area occupied"; no move or push relocates a living unit from the
\* board back into the spawn zone.
C12_SpawnAreaOccupiedError ==
  /\ [](Cardinality(InSpawnZone(units)) <= 1)
  /\ [][(result'.op = "spawnUnit" /\ InSpawnZone(units) # {}) =>
          (~result'.success /\ result'.error = "Spawn area occupied")]_vars
  /\ NeverBackToSpawnZone

\* C12, amended: in every reachable state at most one unit is alive, spawned
\* and in the spawn zone; while such a unit exists every spawnUnit call is
\* rejected and changes nothing, with "Spawn area occupied" when the unit
\* asked for exists, is dead, is eligible to respawn and the gold covers its
\* spawn cost, and with the error of the first of these checks that fails
\* otherwise; no move or push relocates a living unit from the board back
\* into the spawn zone.
C12_SpawnExclusive ==
  /\ [](Cardinality(InSpawnZone(units)) <= 1)
  /\ [][(result'.op = "spawnUnit" /\ InSpawnZone(units) # {}) =>
          LET k == result'.unit
          IN  /\ ~result'.success
              /\ engine' = engine
              /\ result'.error =
                   (IF k \notin UnitType THEN "Invalid unit type"
                    ELSE IF units[k].alive THEN "Unit already alive"
                    ELSE IF ~units[k].canRespawn THEN "Unit cannot respawn this turn"
                    ELSE IF gold < unitCosts[k].summon THEN "Not enough gold"
                    ELSE "Spawn area occupied")]_vars
  /\ NeverBackToSpawnZone

\* a unit waits in the spawn zone, another has left it for the board, and the
\* spawn of a third, affordable and eligible, was refused
C12_Witness ==
  /\ result.op = "spawnUnit" /\ result.error = "Spawn area occupied"
  /\ Cardinality(InSpawnZone(units)) = 1
  /\ \E o \in UnitType : units[o].alive /\ units[o].x >= 0
  /\ ~units[result.unit].alive
  /\ gold >= unitCosts[result.unit].summon


RevealedOpenTile(x, y) ==
  /\ x >= 0 /\ x <= maxColumn /\ y >= 0 /\ y < totalPaths
  /\ getTile(columns, x, y).type # WALL
  /\ getTile(columns, x, y).revealed

\* the unit k ends the step at (x, y), alive, no more trapped than before,
\* having paid its move cost and nothing else, and no bomb went off
RestsUnharmed(k, x, y) ==
  /\ units'[k] = [units[k] EXCEPT !.x = x, !.y = y]
  /\ gold' = gold - unitCosts[k].move
  /\ result'.blasts = <<>>

\* C14: a tile that was already revealed has no effect on a unit that comes
\* to rest on it, by its own move or pushed there by an oil slick or a
\* pushback trap: the unit is not killed, trapped or pushed, and no treasure
\* bonus or bomb is triggered by that tile.
C14_Memory ==
  [][(result'.op = "moveUnit" /\ result'.success /\ ~result'.win) =>
       LET k == result'.unit
           tx == result'.tx
           ty == result'.ty
           pushed == result'.effects.pushed
       IN  /\ RevealedOpenTile(tx, ty) =>
                (result'.effects = NoEffects /\ RestsUnharmed(k, tx, ty))
           /\ (pushed # NoPush /\ RevealedOpenTile(tx + pushed[1], ty + pushed[2])) =>
                RestsUnharmed(k, tx + pushed[1], ty + pushed[2])]_vars

\* an oil slick pushed a unit onto a spike trap that was already revealed, and
\* the unit was killed
C14_Witness ==
  /\ result.op = "moveUnit" /\ result.success
  /\ result.landed # <<>> /\ result.landed[3]
  /\ getTile(columns, result.tx, result.ty).type = OIL_SLICK_TRAP
  /\ getTile(columns, result.landed[1], result.landed[2]).type = SPIKE_TRAP
  /\ ~units[result.unit].alive /\ result.kills[result.unit] = 1


\* C15: for every accepted move of the jumper onto a board tile, its entry
\* from the spawn zone to column 1 at any row included, the landing tile's
\* revealed flag is the same after the move as before it; for every accepted
\* move of any other unit kind onto a board tile, the landing tile is revealed
\* after the move.
C15_JumpRevealRule ==
  [][(/\ result'.op = "moveUnit"
      /\ MoveConditions(result'.unit, result'.tx, result'.ty)
      /\ result'.tx <= maxColumn) =>
       LET tx == result'.tx
           ty == result'.ty
       IN  IF result'.unit = JUMPER
             THEN getTile(columns', tx, ty).revealed = getTile(columns, tx, ty).revealed
             ELSE getTile(columns', tx, ty).revealed]_vars

\* the jumper entered the board from the spawn zone at row 1 or 3 of column 1
\* (the last column, so it did not come from further right), and the tile it
\* landed on, hidden before, was revealed by the move
C15_Witness ==
  /\ result.op = "moveUnit" /\ result.unit = JUMPER /\ result.success
  /\ maxColumn = 1 /\ result.tx = 1 /\ result.ty \in {1, 3}
  /\ ~result.wasRevealed
  /\ getTile(columns, result.tx, result.ty).revealed


\* C16: every bomb resolution terminates, and within one engine operation no
\* unit has kill applied to it more than once.
C16_KilledAtMostOnce == \A k \in UnitType : result.kills[k] <= 1

\* the bomber died on the tile it moved onto: the bomb resolution centred on
\* that tile killed it, and the move killed it again on return
C16_Witness ==
  /\ result.op = "moveUnit" /\ result.unit = BOMBER /\ result.success
  /\ result.effects.killed
  /\ result.blasts # <<>> /\ result.blasts[1] = <<result.tx, result.ty>>
  /\ result.kills[BOMBER] = 2
  /\ ~units[BOMBER].alive


\* where the bomber stands when it dies in the step: the tile a push took it
\* to or else the tile it moved onto when it is the moving unit, and the tile
\* it stood on before the call otherwise
BomberDeathPlace ==
  IF result'.unit = BOMBER
    THEN IF result'.landed # <<>>
           THEN <<result'.landed[1], result'.landed[2]>>
           ELSE <<result'.tx, result'.ty>>
    ELSE <<units[BOMBER].x, units[BOMBER].y>>

\* C17: whenever the bomber goes from alive to dead inside the engine (killed
\* by the tile it moved onto, by the tile it was pushed onto, or caught in
\* another explosion), a bomb resolution is carried out centred on the position
\* it occupied when it died, and every living unit on that position's four
\* orthogonal neighbours is killed.
C17_BomberDeathDetonates ==
  [][(result'.op \notin Resets /\ units[BOMBER].alive /\ ~units'[BOMBER].alive) =>
       /\ \E i \in 1..Len(result'.blasts) : result'.blasts[i] = BomberDeathPlace
       /\ \A o \in UnitType \ {BOMBER} :
            (/\ units[o].alive /\ o # result'.unit
             /\ Abs(units[o].x - BomberDeathPlace[1])
                  + Abs(units[o].y - BomberDeathPlace[2]) = 1) =>
              ~units'[o].alive]_vars

\* a push took the bomber onto a tile that killed it; no bomb resolution was
\* run, and the basic unit on a neighbouring tile is still alive
C17_Witness ==
  /\ result.op = "moveUnit" /\ result.unit = BOMBER /\ result.success
  /\ result.landed # <<>>
  /\ ~units[BOMBER].alive /\ result.kills[BOMBER] = 1
  /\ result.blasts = <<>>
  /\ units[BASIC].alive
  /\ Abs(units[BASIC].x - result.landed[1]) + Abs(units[BASIC].y - result.landed[2]) = 1


\* (px, py) is the centre c or one of its four orthogonal neighbours
InBlast(c, px, py) ==
  \/ (px = c[1] /\ py = c[2])
  \/ Abs(px - c[1]) + Abs(py - c[2]) = 1

\* (px, py) is within the blast of one of the step's bomb resolutions
InSomeBlast(px, py) ==
  \E i \in 1..Len(result'.blasts) : InBlast(result'.blasts[i], px, py)

HiddenOpenTile(x, y) ==
  /\ x >= 0 /\ x <= maxColumn /\ y >= 0 /\ y < totalPaths
  /\ getTile(columns, x, y).type # WALL
  /\ ~getTile(columns, x, y).revealed

\* what resolving the tile (x, y), of kind type, on the pushed unit k leaves
PushLandingResolved(k, x, y, type) ==
  /\ getTile(columns', x, y).revealed
  /\ CASE type = SPIKE_TRAP -> ~units'[k].alive
       [] type = BOMB_TRAP ->
            /\ ~units'[k].alive
            /\ \E i \in 1..Len(result'.blasts) : result'.blasts[i] = <<x, y>>
       [] type = CAGE_TRAP ->
            /\ units'[k].alive /\ units'[k].x = x /\ units'[k].y = y
            /\ units'[k].trapped
       [] type = TREASURE ->
            /\ units'[k].alive /\ units'[k].x = x /\ units'[k].y = y
            /\ gold' = gold - unitCosts[k].move + 4
            /\ getTile(columns', x, y).treasureCollected
       [] OTHER ->
            /\ units'[k].alive /\ units'[k].x = x /\ units'[k].y = y
            /\ ~units'[k].trapped
            /\ gold' = gold - unitCosts[k].move

\* C19: when an oil slick or a pushback trap pushes a unit onto a valid,
\* non-wall, previously unrevealed landing tile, the unit is relocated there,
\* the landing tile is revealed and its own effect is resolved on the unit
\* once, with no further push: a spike trap kills it, a cage trap leaves it
\* trapped, a treasure grants the gold bonus and is marked collected, a bomb
\* trap kills it and triggers a bomb resolution centred on the landing tile.
C19_PushLandingResolved ==
  [][(/\ result'.op = "moveUnit" /\ result'.success
      /\ result'.effects.pushed # NoPush
      /\ HiddenOpenTile(result'.tx + result'.effects.pushed[1],
                        result'.ty + result'.effects.pushed[2])) =>
       LET x == result'.tx + result'.effects.pushed[1]
           y == result'.ty + result'.effects.pushed[2]
       IN  PushLandingResolved(result'.unit, x, y, getTile(columns, x, y).type)]_vars

\* an oil slick pushed a unit onto a hidden cage trap, where it stands free
C19_Witness ==
  /\ result.op = "moveUnit" /\ result.success
  /\ result.landed # <<>> /\ ~result.landed[3]
  /\ getTile(columns, result.landed[1], result.landed[2]).type = CAGE_TRAP
  /\ getTile(columns, result.landed[1], result.landed[2]).revealed
  /\ units[result.unit].alive /\ ~units[result.unit].trapped
  /\ units[result.unit].x = result.landed[1] /\ units[result.unit].y = result.landed[2]


\* one step in the direction of n
Sign(n) == IF n > 0 THEN 1 ELSE IF n < 0 THEN 0 - 1 ELSE 0

\* the tile one step from (tx, ty) along the travel (dx, dy): further on for
\* an oil slick, back for a pushback trap
OneTileOn(type, tx, ty, dx, dy) ==
  IF type = OIL_SLICK_TRAP
    THEN <<tx + Sign(dx), ty + Sign(dy)>>
    ELSE <<tx - Sign(dx), ty - Sign(dy)>>

\* C20: for every unit kind and every accepted move onto an unrevealed oil
\* slick (single steps, two-tile moves and entries from the spawn zone alike),
\* if the tile one step further in the direction of travel is a valid non-wall
\* tile, the push takes the unit to that tile, exactly one tile beyond the oil
\* slick; a pushback trap takes it exactly one tile back. Stated for travel
\* along a row, a column or a diagonal, where one step is unambiguous.
C20_SlidesOneTile ==
  [][(/\ result'.op = "moveUnit" /\ result'.success /\ ~result'.win
      /\ ~getTile(columns, result'.tx, result'.ty).revealed
      /\ getTile(columns, result'.tx, result'.ty).type \in {OIL_SLICK_TRAP, PUSHBACK_TRAP}) =>
       LET k == result'.unit
           tx == result'.tx
           ty == result'.ty
           dx == tx - units[k].x
           dy == ty - units[k].y
           to == OneTileOn(getTile(columns, tx, ty).type, tx, ty, dx, dy)
       IN  (/\ dx = 0 \/ dy = 0 \/ Abs(dx) = Abs(dy)
            /\ to[1] >= 0 /\ to[1] <= maxColumn /\ to[2] >= 0 /\ to[2] < totalPaths
            /\ getTile(columns, to[1], to[2]).type # WALL) =>
             /\ result'.landed # <<>>
             /\ result'.landed[1] = to[1] /\ result'.landed[2] = to[2]]_vars

\* the sprinter moved two tiles along its column onto a hidden oil slick and
\* was left standing on it, although the next tile in its direction is on
\* the board and is not a wall
C20_Witness ==
  /\ result.op = "moveUnit" /\ result.unit = SPRINTER /\ result.success
  /\ ~result.win /\ ~result.wasRevealed
  /\ getTile(columns, result.tx, result.ty).type = OIL_SLICK_TRAP
  /\ result.effects.pushed = <<0, 0 - 2>>
  /\ result.landed = <<>>
  /\ units[SPRINTER].alive /\ units[SPRINTER].x = result.tx /\ units[SPRINTER].y = result.ty
  /\ result.ty - 1 >= 0
  /\ getTile(columns, result.tx, result.ty - 1).type # WALL


\* the living trapped units other than k that stand on (x, y)
CagedOn(us, k, x, y) ==
  {o \in UnitType \ {k} : us[o].alive /\ us[o].trapped /\ us[o].x = x /\ us[o].y = y}

\* the unit of the running move came onto the cage trap (x, y), by its own
\* move or by the push that followed it, and is still there
EntersCage(x, y) ==
  /\ result'.op = "moveUnit" /\ result'.success /\ ~result'.win
  /\ isValidPosition(maxColumn, x, y)
  /\ getTile(columns, x, y).type = CAGE_TRAP
  /\ ~(units[result'.unit].x = x /\ units[result'.unit].y = y)
  /\ units'[result'.unit].alive
  /\ units'[result'.unit].x = x /\ units'[result'.unit].y = y

\* C21: cage swap. When a unit enters a cage-trap tile that already holds
\* another living trapped unit, the entering unit becomes trapped and the
\* previously trapped unit has its trapped flag cleared.
C21_CageSwap ==
  [][\A x \in 0..2 : \A y \in 0..(totalPaths - 1) :
       (EntersCage(x, y) /\ CagedOn(units, result'.unit, x, y) # {}) =>
         /\ units'[result'.unit].trapped
         /\ \A o \in CagedOn(units, result'.unit, x, y) : ~units'[o].trapped]_vars

\* a push has taken a unit onto the cage trap that holds a trapped unit: both
\* stand on the tile, the caged unit still trapped, the newcomer free
C21_Witness ==
  /\ result.op = "moveUnit" /\ result.success /\ ~result.win
  /\ result.landed # <<>>
  /\ getTile(columns, result.landed[1], result.landed[2]).type = CAGE_TRAP
  /\ units[result.unit].alive /\ ~units[result.unit].trapped
  /\ units[result.unit].x = result.landed[1] /\ units[result.unit].y = result.landed[2]
  /\ CagedOn(units, result.unit, result.landed[1], result.landed[2]) # {}


\* the running call is an accepted move onto the unrevealed treasure (tx, ty)
EntersHiddenTreasure ==
  /\ result'.op = "moveUnit" /\ result'.success /\ ~result'.win
  /\ getTile(columns, result'.tx, result'.ty).type = TREASURE
  /\ ~getTile(columns, result'.tx, result'.ty).revealed

\* C22: Scenario D. For every unit kind, an accepted move onto an unrevealed
\* treasure tile returns success, raises the gold by the treasure bonus (4)
\* net of the move cost, sets the tile's collected flag and leaves the tile
\* revealed; a collected treasure is still revealed after endOffensePhase,
\* whether or not a unit stands on it.
C22_TreasureCollected ==
  [][/\ EntersHiddenTreasure =>
          /\ gold' = gold - getMoveCost(result'.unit) + 4
          /\ getTile(columns', result'.tx, result'.ty).treasureCollected
          /\ getTile(columns', result'.tx, result'.ty).revealed
     /\ result'.op = "endOffensePhase" =>
          \A p \in BoardPositions :
            (getTile(columns, p[1], p[2]).type = TREASURE
             /\ getTile(columns, p[1], p[2]).treasureCollected)
              => getTile(columns', p[1], p[2]).revealed]_vars

\* the jumper has jumped onto a hidden treasure: the gold is paid out and the
\* tile is marked collected, and the tile is still face-down
C22_Witness ==
  /\ result.op = "moveUnit" /\ result.unit = JUMPER /\ result.success /\ ~result.win
  /\ result.effects.treasure
  /\ ~result.wasRevealed
  /\ getTile(columns, result.tx, result.ty).treasureCollected
  /\ ~getTile(columns, result.tx, result.ty).revealed


\* a living unit stands on (x, y)
UnitStandsOn(us, x, y) == \E k \in UnitType : us[k].alive /\ us[k].x = x /\ us[k].y = y

\* C23: end-of-Offense hiding. Immediately after endOffensePhase, every board
\* tile on which no living unit stands and which is not a collected treasure
\* is unrevealed, whatever happened during the phase.
C23_EndOfOffenseHiding ==
  [][result'.op = "endOffensePhase" =>
       \A p \in BoardPositions :
         (/\ ~UnitStandsOn(units', p[1], p[2])
          /\ ~(getTile(columns', p[1], p[2]).type = TREASURE
               /\ getTile(columns', p[1], p[2]).treasureCollected))
           => ~getTile(columns', p[1], p[2]).revealed]_vars

\* endOffensePhase has run and a tile that is no collected treasure and has
\* no living unit on it is still revealed: its occupancy flag was left set
\* when the unit on it died
C23_Witness ==
  /\ result.op = "endOffensePhase"
  /\ \E p \in BoardPositions :
       /\ ~UnitStandsOn(units, p[1], p[2])
       /\ getTile(columns, p[1], p[2]).type # TREASURE
       /\ getTile(columns, p[1], p[2]).revealed
       /\ getTile(columns, p[1], p[2]).hasUnit


\* C24: never re-hidden. endOffensePhase never turns a revealed tile
\* face-down while a living unit stands on it, and never turns a collected
\* treasure face-down.
C24_NeverRehidden ==
  [][result'.op = "endOffensePhase" =>
       \A p \in BoardPositions :
         (/\ getTile(columns, p[1], p[2]).revealed
          /\ \/ UnitStandsOn(units, p[1], p[2])
             \/ (getTile(columns, p[1], p[2]).type = TREASURE
                 /\ getTile(columns, p[1], p[2]).treasureCollected))
           => getTile(columns', p[1], p[2]).revealed]_vars

\* endOffensePhase has just turned face-down a tile on which a living unit
\* stands
C24_Witness ==
  /\ result.op = "endOffensePhase"
  /\ \E p \in result.hidden :
       /\ UnitStandsOn(units, p[1], p[2])
       /\ ~getTile(columns, p[1], p[2]).revealed


\* the conditions under which revealAdjacentTile(k, tx, ty) reveals a tile, on
\* the state the call finds
RevealConditions(k, tx, ty) ==
  /\ k = SCOUT
  /\ units[SCOUT].alive
  /\ Abs(tx - units[SCOUT].x) + Abs(ty - units[SCOUT].y) = 1
  /\ isValidPosition(maxColumn, tx, ty)
  /\ ~getTile(columns, tx, ty).revealed

\* the running call changed the revealed flag of the tile (tx, ty), and
\* nothing else
OnlyRevealed(tx, ty) ==
  /\ columns' = [columns EXCEPT ![tx + 1][ty + 1].revealed = TRUE]
  /\ UNCHANGED <<turn, phase, defenseTurnCount, firstCycle, gold, currentDraw, gameOver,
                 winner, units, maxColumn, remainingTiles, drawnTiles>>

\* C25: revealAdjacentTile succeeds only for a living scout that
\* has just completed a successful move (so at most one tile is revealed per
\* completed scout move), only for an unrevealed valid tile orthogonally
\* adjacent to the scout, and a successful reveal changes nothing but that
\* tile's revealed flag.
C25_OncePerMove ==
  [][(result'.op = "revealAdjacentTile" /\ result'.success) =>
       /\ result.op = "moveUnit" /\ result.unit = SCOUT /\ result.success
       /\ RevealConditions(result'.unit, result'.tx, result'.ty)
       /\ OnlyRevealed(result'.tx, result'.ty)]_vars

\* the scout, spawned and not yet moved, has revealed a tile of column 0
\* from the spawn zone
C25_Witness ==
  /\ result.op = "revealAdjacentTile" /\ result.success
  /\ result.unit = SCOUT
  /\ units[SCOUT].alive /\ units[SCOUT].x = 0 - 1
  /\ getTile(columns, result.tx, result.ty).revealed


\* C26: scout-revealed treasure is collected by occupation. A scout reveal of
\* a treasure tile grants no gold and does not mark it collected, and the
\* unit that then moves onto that revealed, uncollected treasure collects it:
\* the gold rises by the treasure bonus (net of the move cost) and the tile's
\* collected flag is set.
C26_RevealedTreasureCollected ==
  [][/\ (/\ result'.op = "revealAdjacentTile" /\ result'.success
         /\ result'.tileType = TREASURE) =>
          /\ gold' = gold
          /\ getTile(columns', result'.tx, result'.ty).treasureCollected
               = getTile(columns, result'.tx, result'.ty).treasureCollected
     /\ (/\ result.op = "revealAdjacentTile" /\ result.success
         /\ result.tileType = TREASURE
         /\ ~getTile(columns, result.tx, result.ty).treasureCollected
         /\ result'.op = "moveUnit" /\ result'.success /\ ~result'.win
         /\ result'.tx = result.tx /\ result'.ty = result.ty) =>
          /\ gold' = gold - getMoveCost(result'.unit) + 4
          /\ getTile(columns', result'.tx, result'.ty).treasureCollected]_vars

\* the scout has moved onto the treasure it had revealed and stands on it:
\* the tile is revealed and still not collected, and the move paid no bonus
C26_Witness ==
  /\ result.op = "moveUnit" /\ result.unit = SCOUT /\ result.success /\ ~result.win
  /\ result.wasRevealed
  /\ ~result.effects.treasure
  /\ units[SCOUT].alive /\ units[SCOUT].x = result.tx /\ units[SCOUT].y = result.ty
  /\ getTile(columns, result.tx, result.ty).type = TREASURE
  /\ getTile(columns, result.tx, result.ty).revealed
  /\ ~getTile(columns, result.tx, result.ty).treasureCollected

\* how many tiles of a sequence are of a kind
CountOf(tiles, kind) == Cardinality({i \in 1..Len(tiles) : tiles[i] = kind})

\* C27 (supply conservation). After any sequence of drawTile, drawTiles and
\* reset calls on a supply, and for every tile kind, the number of tiles of
\* that kind remaining plus the number in the drawn history is the count
\* configured for the kind.
C27_SupplyConservation ==
  \A i \in 1..Len(tileBag) :
    CountOf(remainingTiles, tileBag[i][1]) + CountOf(drawnTiles, tileBag[i][1])
      = tileBag[i][2]

\* a supply built with the seed -2147483646 has been drawn from and reset:
\* one of the two blank tiles is gone and the supply holds an entry that is
\* no tile kind
C27_Witness ==
  /\ result.op = "reset"
  /\ result.after[1] \in {"drawTile", "drawTiles"}
  /\ CountOf(remainingTiles, BLANK) + CountOf(drawnTiles, BLANK) = 1
  /\ CountOf(remainingTiles, UNDEFINED) = 1

FreshGameDraw(seed) == drawTiles(initialSupply(seed), <<>>, totalPaths, <<>>)

\* C29 (replay with a seed). After the caller restarts the game with a seed
\* s, the tiles drawn are those a newly constructed game with seed s and the
\* same tile counts draws: the restart's own draw, and the supply left for
\* the draws that follow, are those of the new game.
C29_ReplayWithSeed ==
  [][result'.op = "restartWithSeed" =>
       /\ tileBagSeed' = result'.given[1]
       /\ currentDraw' = FreshGameDraw(result'.given[1]).tiles
       /\ remainingTiles' = FreshGameDraw(result'.given[1]).remaining
       /\ drawnTiles' = FreshGameDraw(result'.given[1]).drawn]_vars

\* the game built with seed 29 has been restarted with seed 31: the
\* configuration holds 31, and the tiles drawn are those of seed 29 and not
\* those of seed 31
C29_Witness ==
  /\ result.op = "restartWithSeed"
  /\ scn.seed = 29
  /\ result.given = <<31>>
  /\ tileBagSeed = 31
  /\ currentDraw = FreshGameDraw(29).tiles
  /\ currentDraw # FreshGameDraw(31).tiles
  /\ remainingTiles # FreshGameDraw(31).remaining

\* C30 (generator state range). For every integer seed the state of the
\* generator is in 1..Modulus-1 after construction, after reset(seed) and
\* after any number of next() calls; next() returns a value in [0, 1) and
\* nextInt(0, i) an index in 0..i.
C30_StateRange ==
  /\ rngSeed \in 1..(Modulus - 1)
  /\ result.op = "next" =>
       /\ 0 <= result.value[1]
       /\ result.value[1] < result.value[2]
  /\ result.op = "nextInt" => result.value \in 0..result.given[2]

\* a generator constructed with or reset to the seed -2147483646 has
\* answered nextInt(0, 3): its state is 0 and the index returned is -1
C30_Witness ==
  /\ result.op = "nextInt"
  /\ result.given = <<0, 3>>
  /\ rngSeed = 0
  /\ result.value = 0 - 1

OffsetSet(options) == {options[i] : i \in 1..Len(options)}

\* no offset occurs twice in an array of options
NoDuplicates(options) == Cardinality(OffsetSet(options)) = Len(options)

\* the positions the offsets lead to from (x, y)
Reached(options, x, y) == {<<x + o[1], y + o[2]>> : o \in OffsetSet(options)}

\* the last call asked for the options of a unit of kind k
AskedOptions(k) == result.op = "getMovementOptions" /\ result.unit = k

\* C32 (movement set of basic, scout and bomber). On the board, at any
\* position, the options are exactly the four orthogonal unit steps, the
\* step to the left left out in column 0, each once; from the spawn zone
\* (-1, 0) they lead to exactly the tiles of column 0, one option per row.
C32_BasicMovementSet ==
  \A k \in {BASIC, SCOUT, BOMBER} :
    AskedOptions(k) =>
      /\ NoDuplicates(result.value)
      /\ result.tx >= 0 =>
           OffsetSet(result.value) =
             {<<1, 0>>, <<0, 1>>, <<0, 0 - 1>>}
               \cup (IF result.tx = 0 THEN {} ELSE {<<0 - 1, 0>>})
      /\ result.tx = 0 - 1 =>
           /\ Reached(result.value, result.tx, result.ty) = {0} \X (0..(totalPaths - 1))
           /\ Len(result.value) = totalPaths

\* a bomber standing in column 0, row 2, has been asked for its options: it
\* is offered the three steps right, down and up, and no step to the left
C32_Witness ==
  /\ AskedOptions(BOMBER) /\ result.tx = 0 /\ result.ty = 2
  /\ units[BOMBER].alive /\ units[BOMBER].x = 0 /\ units[BOMBER].y = 2
  /\ Len(result.value) = 3
  /\ <<0 - 1, 0>> \notin OffsetSet(result.value)

\* the orthogonal single and double steps
SprinterSteps ==
  {<<1, 0>>, <<0 - 1, 0>>, <<0, 1>>, <<0, 0 - 1>>,
   <<2, 0>>, <<0 - 2, 0>>, <<0, 2>>, <<0, 0 - 2>>}

\* C33 as stated (movement set of the sprinter): on the board, at any
\* position, the options are exactly the orthogonal single and double
\* steps, each once; from the spawn zone they lead to exactly the tiles of
\* columns 0 and 1.
C33_SprinterAllEight ==
  AskedOptions(SPRINTER) =>
    /\ NoDuplicates(result.value)
    /\ result.tx >= 0 => OffsetSet(result.value) = SprinterSteps
    /\ result.tx = 0 - 1 =>
         Reached(result.value, result.tx, result.ty) = {0, 1} \X (0..(totalPaths - 1))

\* C33 amended: on the board the sprinter's options are the orthogonal
\* single and double steps without the single step to the left in column 0
\* and without the double step to the left in columns 0 and 1, each once;
\* from the spawn zone they lead to exactly the tiles of columns 0 and 1,
\* one option per tile.
C33_SprinterMovementSet ==
  AskedOptions(SPRINTER) =>
    /\ NoDuplicates(result.value)
    /\ result.tx >= 0 =>
         OffsetSet(result.value) =
           (SprinterSteps \ (IF result.tx = 0 THEN {<<0 - 1, 0>>} ELSE {}))
             \ (IF result.tx <= 1 THEN {<<0 - 2, 0>>} ELSE {})
    /\ result.tx = 0 - 1 =>
         /\ Reached(result.value, result.tx, result.ty) = {0, 1} \X (0..(totalPaths - 1))
         /\ Len(result.value) = 2 * totalPaths

\* a sprinter standing in column 1 has been asked for its options: it is
\* offered seven of the eight steps, the double step to the left missing
C33_Witness ==
  /\ AskedOptions(SPRINTER) /\ result.tx = 1
  /\ units[SPRINTER].alive /\ units[SPRINTER].x = 1
  /\ Len(result.value) = 7
  /\ <<0 - 1, 0>> \in OffsetSet(result.value)
  /\ <<0 - 2, 0>> \notin OffsetSet(result.value)

\* the two-tile orthogonal and diagonal offsets
JumperOffsets ==
  {<<2, 0>>, <<0 - 2, 0>>, <<0, 2>>, <<0, 0 - 2>>,
   <<2, 2>>, <<2, 0 - 2>>, <<0 - 2, 2>>, <<0 - 2, 0 - 2>>}

\* C34 as stated (movement set of the jumper): on the board, at any
\* position, the options are exactly the eight two-tile offsets, each once,
\* and never a single-tile offset; from the spawn zone they lead to exactly
\* the tiles of column 1.
C34_JumperAllEight ==
  AskedOptions(JUMPER) =>
    /\ NoDuplicates(result.value)
    /\ result.tx >= 0 => OffsetSet(result.value) = JumperOffsets
    /\ result.tx = 0 - 1 =>
         Reached(result.value, result.tx, result.ty) = {1} \X (0..(totalPaths - 1))

\* C34 amended: on the board the jumper's options are the eight two-tile
\* offsets without the orthogonal jump to the left in columns 0 and 1 (the
\* two diagonal jumps to the left are offered in every column), each once,
\* and never a single-tile offset; from the spawn zone they lead to exactly
\* the tiles of column 1, one option per tile.
C34_JumperMovementSet ==
  AskedOptions(JUMPER) =>
    /\ NoDuplicates(result.value)
    /\ result.tx >= 0 =>
         /\ OffsetSet(result.value) =
              JumperOffsets \ (IF result.tx <= 1 THEN {<<0 - 2, 0>>} ELSE {})
         /\ \A o \in OffsetSet(result.value) : Abs(o[1]) # 1 /\ Abs(o[2]) # 1
    /\ result.tx = 0 - 1 =>
         /\ Reached(result.value, result.tx, result.ty) = {1} \X (0..(totalPaths - 1))
         /\ Len(result.value) = totalPaths

\* a jumper standing in column 1 has been asked for its options: it is
\* offered seven offsets, the two diagonal jumps to the left among them and
\* the orthogonal jump to the left missing
C34_Witness ==
  /\ AskedOptions(JUMPER) /\ result.tx = 1
  /\ units[JUMPER].alive /\ units[JUMPER].x = 1
  /\ Len(result.value) = 7
  /\ <<0 - 2, 2>> \in OffsetSet(result.value)
  /\ <<0 - 2, 0>> \notin OffsetSet(result.value)

\* two different units, both alive, stand on the same board tile
SharedTile(k, o) ==
  /\ k # o
  /\ units[k].alive /\ units[o].alive
  /\ units[k].x >= 0
  /\ units[k].x = units[o].x /\ units[k].y = units[o].y

\* C35 (one unit per tile). In every reachable state no two living units
\* stand on the same board position, pushes by oil slick and pushback
\* included.
C35_OneUnitPerTile ==
  \A k \in UnitType : \A o \in UnitType : ~SharedTile(k, o)

\* a move has ended with a push (result.landed names the landing tile) onto
\* the tile another living unit stands on: both units are now there
C35_Witness ==
  /\ result.op = "moveUnit" /\ result.success
  /\ result.landed # <<>>
  /\ \E o \in UnitType : SharedTile(result.unit, o)
  /\ units[result.unit].x = result.landed[1]
  /\ units[result.unit].y = result.landed[2]

\* C36 (occupancy flag consistency). Whenever an operation has returned, a
\* board tile's hasUnit flag is set if and only if a living unit is on that
\* tile: the flag of the tile of a unit killed by an explosion is cleared,
\* and the flag stays set while a living unit remains on the tile.
C36_OccupancyFlag ==
  \A p \in BoardPositions :
    getTile(columns, p[1], p[2]).hasUnit <=> UnitStandsOn(units, p[1], p[2])

\* a move has set off an explosion that killed a unit beside the moving
\* one: a tile next to the centre of the blast has its flag set and no
\* living unit on it
C36_Witness ==
  /\ result.op = "moveUnit" /\ result.success
  /\ result.blasts # <<>>
  /\ \E k \in UnitType : k # result.unit /\ result.kills[k] > 0 /\ ~units[k].alive
  /\ \E p \in BoardPositions :
       /\ Abs(p[1] - result.blasts[1][1]) + Abs(p[2] - result.blasts[1][2]) = 1
       /\ getTile(columns, p[1], p[2]).hasUnit
       /\ ~UnitStandsOn(units, p[1], p[2])

\* the tiles of the board whose collected flag is set
CollectedTiles ==
  {p \in BoardPositions : getTile(columns, p[1], p[2]).treasureCollected}

\* C37 (treasure pays at most once). Between two resets each treasure tile
\* grants the gold bonus at most once: a move is paid the bonus only on a
\* tile whose collected flag was not yet set, and the flag, once set, stays
\* set. And every tile whose collected flag is set is revealed.
C37_TreasurePaysOnce ==
  [][result'.op \notin Resets =>
       /\ (result'.op = "moveUnit" /\ result'.effects.treasure) =>
            ~getTile(columns, result'.tx, result'.ty).treasureCollected
       /\ \A p \in BoardPositions :
            getTile(columns, p[1], p[2]).treasureCollected =>
              getTile(columns', p[1], p[2]).treasureCollected
       /\ \A p \in BoardPositions :
            getTile(columns', p[1], p[2]).treasureCollected =>
              getTile(columns', p[1], p[2]).revealed]_vars

\* a jumper has been paid the bonus twice by the only treasure tile it has
\* been on: no gold came from endDefensePhase, one tile is collected, and
\* the gold is the starting gold less the spawn and three moves plus two
\* bonuses; the tile is still face-down
C37_Witness ==
  /\ result.op = "moveUnit" /\ result.unit = JUMPER /\ result.success
  /\ result.effects.treasure
  /\ defenseEnds = 0
  /\ CollectedTiles = {<<result.tx, result.ty>>}
  /\ ~getTile(columns, result.tx, result.ty).revealed
  /\ gold = scn.startingGold - getSpawnCost(JUMPER) - 3 * getMoveCost(JUMPER) + 8


\* C38 (spawn zone is safe). No engine operation kills a living unit that
\* waits in the spawn zone: a unit that is in the spawn zone before a call
\* and is not the unit the call moves is alive after it. In particular a
\* bomb resolution kills only units standing on board tiles.
C38_SpawnZoneSafe ==
  [][result'.op \notin Resets =>
       \A k \in UnitType :
         (k \in InSpawnZone(units) /\ ~(result'.op = "moveUnit" /\ result'.unit = k)) =>
           /\ units'[k].alive
           /\ result'.kills[k] = 0]_vars

\* a move has set off a bomb at (0,0) and the explosion has killed another
\* unit; that unit stood on no board tile next to the centre, since neither
\* (0,1) nor (1,0) carries the occupancy flag an explosion leaves behind:
\* it was waiting at (-1,0)
C38_Witness ==
  /\ result.op = "moveUnit" /\ result.success
  /\ result.blasts = <<<<0, 0>>>>
  /\ \A p \in BoardPositions :
       p[1] + p[2] = 1 => ~getTile(columns, p[1], p[2]).hasUnit
  /\ \E k \in UnitType :
       /\ k # result.unit
       /\ result.kills[k] = 1
       /\ ~units[k].alive /\ units[k].x = -1 /\ units[k].y = -1


\* the number of board tiles of kind type
BoardCount(type) ==
  Cardinality({p \in BoardPositions : getTile(columns, p[1], p[2]).type = type})

\* C39 (board tiles come from the supply). In every reachable state, for
\* every tile kind the board holds at most as many tiles of that kind as
\* have been drawn from the supply, and the board has at most one column
\* for each draw of totalPaths tiles.
C39_BoardFromSupply ==
  /\ \A type \in TileType \cup {UNDEFINED} : BoardCount(type) <= CountOf(drawnTiles, type)
  /\ (maxColumn + 1) * totalPaths <= Len(drawnTiles)

\* a caller that only uses startTurn, assignTileToRow and placeTiles has
\* placed a second column after a single draw: four tiles are drawn, eight
\* are on the board
C39_Witness ==
  /\ scn.calls = {"startTurn", "assignTileToRow", "placeTiles"}
  /\ result.op = "placeDefenseTiles" /\ result.success
  /\ Len(drawnTiles) = totalPaths
  /\ maxColumn = 1
  /\ \E type \in TileType : BoardCount(type) = 2 * CountOf(drawnTiles, type)
                            /\ CountOf(drawnTiles, type) > 0


\* C40 (unit position validity). In every reachable state each living unit
\* is either in the spawn zone at (-1, 0) or on a position of the board,
\* and each dead unit is at (-1, -1) with spawned = false.
C40_UnitPositionValid ==
  \A k \in UnitType :
    IF units[k].alive
      THEN \/ units[k].x = -1 /\ units[k].y = 0
           \/ isValidPosition(maxColumn, units[k].x, units[k].y)
      ELSE units[k].x = -1 /\ units[k].y = -1 /\ ~units[k].spawned

\* a move has killed a unit, which is now at (-1, -1) and not spawned, while
\* another unit lives on a position of the board
C40_Witness ==
  /\ result.op = "moveUnit"
  /\ \E k \in UnitType :
       /\ result.kills[k] >= 1
       /\ ~units[k].alive /\ units[k].x = -1 /\ units[k].y = -1 /\ ~units[k].spawned
  /\ \E k \in UnitType :
       units[k].alive /\ isValidPosition(maxColumn, units[k].x, units[k].y)

====
